---- MODULE Spec2Model ----
(***************************************************************************)
(* channel-config: the tree algebra (merge / remove / update) of           *)
(* channel_tool/__main__.py and the validation-rule engine of              *)
(* channel_tool/validation.py, as state machines.                          *)
(*                                                                         *)
(* A Python value is a tagged record [k |-> kind, v |-> payload]:          *)
(*   none, bool, num, str (a sequence of character codes), list, dict      *)
(*   (a function from keys to values), and error (an exception raised      *)
(*   instead of a result; v names the exception class).                    *)
(***************************************************************************)
EXTENDS Integers, Sequences, FiniteSets, TLC

VARIABLES
    in_a,      \* first argument of the call (a / current_config), before it
    in_b,      \* second argument (b / config_updates), before the call
    in_preds,  \* comparison_functions handed to update (a sequence)
    op,        \* "idle" before the call, then the function that was called
    out,       \* what the call returned, or the error it raised
    post_a,    \* the object passed as first argument, after the call
    post_b,    \* the object passed as second argument, after the call
    validation_rules,  \* run_validation_rules: the selected rules, module by module
    module_i,  \* the module the loop of run_validation_rules is at
    rule_i,    \* the rule of that module the loop is at
    results,   \* results: (module, name) -> (rule, what the rule returned)
    stdout,    \* the lines printed so far
    raised,    \* the exception run_validation_rules raised, None if none
    vpc,       \* "off", or where the validation is: "env", "rules", "returned", "raised", "done"
    env_i,     \* validate_all: the environment of ENVS the loop is at (0: no loop)
    disp_rule,    \* the decorated rule whose wrapper is called
    disp_input,   \* the ValidationRuleInput it is called on
    disp_calls,   \* the calls the wrapper made to the rule's function (their arguments)
    disp_result,  \* what the wrapper returned
    dpc,          \* "off", "ready" before the wrapper is called, "done" after
    words,          \* the words the text of the predicate is made of
    str_predicate,  \* compile_predicate's argument: the words joined by spaces
    compiled,       \* what compile_predicate returned, or the error it raised
    pred_config,    \* the record the compiled predicate is applied to
    verdict,        \* what the predicate returned on it, or the error it raised
    ppc,            \* "off", "text" before compiling, then "compiled" / "failed", "applied"
    cli_args,      \* args of add_config / edit_config: the parsed command line
    disk,          \* the asset files: asset -> (channel -> channel definition)
    asset_config,  \* apply_update: the config of the asset the loop is at
    asset_i,       \* the asset of args.assets the loop is at
    channel_i,     \* the channel of args.channels the loop is at
    cmd_stdout,    \* the lines apply_update and its transform printed
    cmd_raised,    \* the exception that left apply_update, None if none
    cpc,           \* "off", or where apply_update is: "asset", "channel", "raised", "done"
    clauses,       \* solve's argument: a formula in conjunctive normal form
    solved,        \* what solve returned, or the error it raised
    spc,           \* "off", "ready" before solve is called, "done" after
    name_annos,    \* class_annos_to_name's argument: the classification annotations
    name_result,   \* the name it returned, or the error it raised
    npc            \* "off", "ready" before class_annos_to_name is called, "done" after

algebra_vars == <<in_a, in_b, in_preds, op, out, post_a, post_b>>
rules_vars == <<validation_rules, module_i, rule_i, results, stdout, raised, vpc, env_i>>
dispatch_vars == <<disp_rule, disp_input, disp_calls, disp_result, dpc>>
vars == <<in_a, in_b, in_preds, op, out, post_a, post_b,
          validation_rules, module_i, rule_i, results, stdout, raised, vpc, env_i,
          disp_rule, disp_input, disp_calls, disp_result, dpc,
          words, str_predicate, compiled, pred_config, verdict, ppc,
          cli_args, disk, asset_config, asset_i, channel_i, cmd_stdout, cmd_raised, cpc,
          clauses, solved, spc, name_annos, name_result, npc>>
predicate_vars == <<words, str_predicate, compiled, pred_config, verdict, ppc>>
command_vars == <<cli_args, disk, asset_config, asset_i, channel_i, cmd_stdout, cmd_raised, cpc>>
solve_vars == <<clauses, solved, spc>>
naming_vars == <<name_annos, name_result, npc>>

\* what the actions of one part of the program leave alone
not_algebra_vars == <<rules_vars, dispatch_vars, predicate_vars, command_vars, solve_vars, naming_vars>>
not_rules_vars == <<algebra_vars, dispatch_vars, predicate_vars, command_vars, solve_vars, naming_vars>>
not_dispatch_vars == <<algebra_vars, rules_vars, predicate_vars, command_vars, solve_vars, naming_vars>>
not_predicate_vars == <<algebra_vars, rules_vars, dispatch_vars, command_vars, solve_vars, naming_vars>>
not_command_vars == <<algebra_vars, rules_vars, dispatch_vars, predicate_vars, solve_vars, naming_vars>>
not_solve_vars == <<algebra_vars, rules_vars, dispatch_vars, predicate_vars, command_vars, naming_vars>>
not_naming_vars == <<algebra_vars, rules_vars, dispatch_vars, predicate_vars, command_vars, solve_vars>>

---------------------------------------------------------------------------
(* Python values *)

None == [k |-> "none", v |-> 0]
Bool(x) == [k |-> "bool", v |-> x]
Num(n) == [k |-> "num", v |-> n]
Str(s) == [k |-> "str", v |-> s]
List(s) == [k |-> "list", v |-> s]
Dict(f) == [k |-> "dict", v |-> f]
Raise(e) == [k |-> "error", v |-> e]

IsError(x) == x.k = "error"
IsStr(x) == x.k = "str"
IsDict(x) == x.k = "dict"
IsList(x) == x.k = "list"
\* isinstance(x, Sequence): lists, and strings too
IsSequence(x) == x.k \in {"list", "str"}

EmptyDict == [key \in {} |-> None]

\* iterating a sequence: the elements of a list, the one-character strings of a str
items(x) ==
    IF IsStr(x) THEN [i \in 1..Len(x.v) |-> Str(<<x.v[i]>>)] ELSE x.v

\* bool(x)
truthy(x) ==
    CASE x.k = "none" -> FALSE
      [] x.k = "bool" -> x.v
      [] x.k = "num" -> x.v # 0
      [] x.k = "str" -> Len(x.v) > 0
      [] x.k = "list" -> Len(x.v) > 0
      [] x.k = "dict" -> DOMAIN x.v # {}
      [] OTHER -> TRUE

\* Python's == identifies True with 1 and False with 0, at any depth
RECURSIVE norm(_)
norm(x) ==
    CASE x.k = "bool" -> Num(IF x.v THEN 1 ELSE 0)
      [] x.k = "list" -> List([i \in 1..Len(x.v) |-> norm(x.v[i])])
      [] x.k = "dict" -> Dict([key \in DOMAIN x.v |-> norm(x.v[key])])
      [] OTHER -> x

py_eq(x, y) == norm(x) = norm(y)

Range(s) == {s[i] : i \in 1..Len(s)}

\* x in ml
contains(ml, x) == \E i \in 1..Len(ml) : py_eq(ml[i], x)

\* the order in which a dict's keys are iterated (insertion order)
KeyOrder == <<"x", "y", "z">>

\* d without key
del(d, key) == [q \in DOMAIN d \ {key} |-> d[q]]

\* d[key] = val
setitem(d, key, val) == [q \in DOMAIN d \cup {key} |-> IF q = key THEN val ELSE d[q]]

\* s < t on strings (lexicographic on character codes)
RECURSIVE str_lt(_, _)
str_lt(s, t) ==
    IF Len(t) = 0 THEN FALSE
    ELSE IF Len(s) = 0 THEN TRUE
    ELSE IF s[1] # t[1] THEN s[1] < t[1]
    ELSE str_lt(Tail(s), Tail(t))

RECURSIVE sort_strs(_)
sort_strs(ml) ==
    IF Len(ml) = 0 THEN <<>>
    ELSE LET i == CHOOSE i \in 1..Len(ml) :
                    \A j \in 1..Len(ml) : ~str_lt(ml[j].v, ml[i].v)
             rest == [j \in 1..(Len(ml) - 1) |-> IF j < i THEN ml[j] ELSE ml[j + 1]]
         IN <<ml[i]>> \o sort_strs(rest)

\* sorted(ml) for ml[0] a str: comparing a str with anything else raises TypeError
sorted(ml) ==
    IF \A i \in 1..Len(ml) : IsStr(ml[i]) THEN List(sort_strs(ml))
    ELSE Raise("TypeError")

---------------------------------------------------------------------------
(* merge *)

is_list_or_dict(x) == IsSequence(x) \/ IsDict(x)

RECURSIVE merge_chain(_, _)
merge_chain(xs, ml) ==
    IF Len(xs) = 0 THEN ml
    ELSE merge_chain(Tail(xs), IF contains(ml, Head(xs)) THEN ml ELSE Append(ml, Head(xs)))

RECURSIVE merge(_, _)
RECURSIVE merge_items(_, _, _)

\* for k, v in b.items(), from the i-th key on, md being the copy so far
merge_items(md, b, i) ==
    IF i > Len(KeyOrder) THEN Dict(md)
    ELSE LET key == KeyOrder[i] IN
         IF key \notin DOMAIN b THEN merge_items(md, b, i + 1)
         ELSE IF key \in DOMAIN md /\ is_list_or_dict(md[key])
              THEN LET m == merge(md[key], b[key]) IN
                   IF IsError(m) THEN m
                   ELSE merge_items(setitem(md, key, m), b, i + 1)
              ELSE merge_items(setitem(md, key, b[key]), b, i + 1)

merge(a, b) ==
    IF IsSequence(a) THEN
        IF ~IsSequence(b) THEN Raise("AssertionError")
        ELSE LET ml == merge_chain(items(a) \o items(b), <<>>) IN
             IF Len(ml) > 0 /\ IsStr(ml[1]) THEN sorted(ml) ELSE List(ml)
    ELSE IF ~IsDict(a) THEN Raise("AssertionError")
    ELSE IF ~IsDict(b) THEN Raise("AssertionError")
    ELSE merge_items(a.v, b.v, 1)

---------------------------------------------------------------------------
(* remove *)

RECURSIVE remove(_, _)
RECURSIVE remove_keys(_, _, _)

\* remove_retained, were it to recurse into the mapping elements instead of
\* comparing them whole
remove_retained_recursing(a, b) ==
    LET dict_filters == SelectSeq(items(b), LAMBDA filt : IsDict(filt))
        filtered(elt) ==
            IF IsDict(elt) /\ Len(dict_filters) > 0 THEN remove(elt, dict_filters[1])
            ELSE IF contains(items(b), elt) THEN None ELSE elt
        all_filtered == [i \in 1..Len(items(a)) |-> filtered(items(a)[i])]
    IN SelectSeq(all_filtered, LAMBDA elt : truthy(elt))

remove_retained(a, b) ==
    SelectSeq(items(a), LAMBDA elt : ~contains(items(b), elt))

\* remove_keys, were it to test "filtered is not None" instead of "filtered"
remove_keys_keeping_emptied(m, b, i) ==
    IF i > Len(KeyOrder) THEN Dict(m)
    ELSE LET key == KeyOrder[i] IN
         IF key \notin DOMAIN b \/ key \notin DOMAIN m THEN remove_keys(m, b, i + 1)
         ELSE LET filtered == remove(m[key], b[key]) IN
              IF IsError(filtered) THEN filtered
              ELSE IF filtered # None THEN remove_keys(setitem(m, key, filtered), b, i + 1)
              ELSE remove_keys(del(m, key), b, i + 1)

\* for k in b.keys(), from the i-th key on, m being the copy so far
remove_keys(m, b, i) ==
    IF i > Len(KeyOrder) THEN Dict(m)
    ELSE LET key == KeyOrder[i] IN
         IF key \notin DOMAIN b \/ key \notin DOMAIN m THEN remove_keys(m, b, i + 1)
         ELSE LET filtered == remove(m[key], b[key]) IN
              IF IsError(filtered) THEN filtered
              ELSE IF truthy(filtered) THEN remove_keys(setitem(m, key, filtered), b, i + 1)
              ELSE remove_keys(del(m, key), b, i + 1)

remove(a, b) ==
    IF IsList(a) THEN
        IF ~IsSequence(b) THEN Raise("AssertionError")
        ELSE List(remove_retained(a, b))
    ELSE IF IsDict(a) THEN
        IF ~IsDict(b) THEN Raise("AssertionError")
        ELSE remove_keys(a.v, b.v, 1)
    ELSE IF py_eq(a, b) THEN None ELSE a

---------------------------------------------------------------------------
(* predicates, as compile_predicate builds them: [field, cmp, target] *)

IsNumber(x) == x.k \in {"num", "bool"}
as_int(x) == IF x.k = "bool" THEN (IF x.v THEN 1 ELSE 0) ELSE x.v

\* curr_value < target_value; ordering a number against a str (or None, or a
\* container against either) raises TypeError
py_lt(x, t) ==
    IF IsNumber(x) /\ IsNumber(t) THEN Bool(as_int(x) < as_int(t))
    ELSE IF IsStr(x) /\ IsStr(t) THEN Bool(str_lt(x.v, t.v))
    ELSE Raise("TypeError")

comparator_to_lambda(cmp, x, t) ==
    CASE cmp = "==" -> Bool(py_eq(x, t))
      [] cmp = "!=" -> Bool(~py_eq(x, t))
      [] cmp = "<" -> py_lt(x, t)
      [] cmp = ">" -> py_lt(t, x)
      [] cmp = "<=" -> LET r == py_lt(t, x) IN IF IsError(r) THEN r ELSE Bool(~r.v)
      [] cmp = ">=" -> LET r == py_lt(x, t) IN IF IsError(r) THEN r ELSE Bool(~r.v)

\* predicate_func(config): config[field_name] raises KeyError on a missing field
predicate_func(p, config) ==
    IF p.field \notin DOMAIN config.v THEN Raise("KeyError")
    ELSE comparator_to_lambda(p.cmp, config.v[p.field], p.target)

\* all_comparison_functions, were it any(...) instead of all(...)
RECURSIVE any_comparison_function(_, _, _)
any_comparison_function(cfs, config, i) ==
    IF i > Len(cfs) THEN Bool(FALSE)
    ELSE LET r == predicate_func(cfs[i], config) IN
         IF IsError(r) THEN r
         ELSE IF r.v THEN Bool(TRUE)
         ELSE any_comparison_function(cfs, config, i + 1)

\* all(comparison_function(config) for comparison_function in comparison_functions)
RECURSIVE all_comparison_functions(_, _, _)
all_comparison_functions(cfs, config, i) ==
    IF i > Len(cfs) THEN Bool(TRUE)
    ELSE LET r == predicate_func(cfs[i], config) IN
         IF IsError(r) THEN r
         ELSE IF ~r.v THEN Bool(FALSE)
         ELSE all_comparison_functions(cfs, config, i + 1)

---------------------------------------------------------------------------
(* update.  It assigns into the objects it is given, so it yields both what   *)
(* it returns (ret) and the state of the first argument afterwards (cur).     *)

RECURSIVE update(_, _, _)
RECURSIVE update_fields(_, _, _, _)
RECURSIVE update_configs(_, _, _, _)
RECURSIVE update_keys(_, _, _)

\* for field_name in config_update, from the i-th key on (config: one element)
update_fields(config, config_update, cfs, i) ==
    IF i > Len(KeyOrder) THEN [ret |-> Dict(config), cur |-> Dict(config)]
    ELSE LET field_name == KeyOrder[i] IN
         IF field_name \notin DOMAIN config_update THEN
             update_fields(config, config_update, cfs, i + 1)
         ELSE IF field_name \notin DOMAIN config THEN
             update_fields(config, config_update, cfs, i + 1)
         ELSE IF config_update[field_name].k = "none" THEN
             update_fields(config, config_update, cfs, i + 1)
         ELSE LET r == update(config[field_name], config_update[field_name], cfs) IN
              IF IsError(r.ret)
              THEN [ret |-> r.ret, cur |-> Dict(setitem(config, field_name, r.cur))]
              ELSE update_fields(setitem(config, field_name, r.ret), config_update, cfs, i + 1)

\* for config in current_config, from the i-th element on
update_configs(configs, config_update, cfs, i) ==
    IF i > Len(configs) THEN [ret |-> List(configs), cur |-> List(configs)]
    ELSE LET sel == IF Len(cfs) > 0
                    THEN all_comparison_functions(cfs, configs[i], 1)
                    ELSE Bool(TRUE)
         IN
         IF IsError(sel) THEN [ret |-> sel, cur |-> List(configs)]
         ELSE IF ~sel.v THEN update_configs(configs, config_update, cfs, i + 1)
         ELSE LET r == update_fields(configs[i].v, config_update.v, cfs, 1) IN
              IF IsError(r.ret)
              THEN [ret |-> r.ret, cur |-> List([configs EXCEPT ![i] = r.cur])]
              ELSE update_configs([configs EXCEPT ![i] = r.ret], config_update, cfs, i + 1)

\* update_keys, were it to lack the "key in current_config" test
update_keys_adding(current_config, config_updates, i) ==
    IF i > Len(KeyOrder) THEN [ret |-> Dict(current_config), cur |-> Dict(current_config)]
    ELSE LET key == KeyOrder[i] IN
         IF key \in DOMAIN config_updates /\ truthy(config_updates[key])
         THEN LET r == IF key \in DOMAIN current_config
                       THEN update(current_config[key], config_updates[key], <<>>)
                       ELSE [ret |-> config_updates[key], cur |-> None]
              IN
              IF IsError(r.ret)
              THEN [ret |-> r.ret, cur |-> Dict(setitem(current_config, key, r.cur))]
              ELSE update_keys(setitem(current_config, key, r.ret), config_updates, i + 1)
         ELSE update_keys(current_config, config_updates, i + 1)

\* for key in config_updates, from the i-th key on (the dict branch passes no predicates)
update_keys(current_config, config_updates, i) ==
    IF i > Len(KeyOrder) THEN [ret |-> Dict(current_config), cur |-> Dict(current_config)]
    ELSE LET key == KeyOrder[i] IN
         IF key \in DOMAIN config_updates /\ key \in DOMAIN current_config
                /\ truthy(config_updates[key])
         THEN LET r == update(current_config[key], config_updates[key], <<>>) IN
              IF IsError(r.ret)
              THEN [ret |-> r.ret, cur |-> Dict(setitem(current_config, key, r.cur))]
              ELSE update_keys(setitem(current_config, key, r.ret), config_updates, i + 1)
         ELSE update_keys(current_config, config_updates, i + 1)

update(current_config, config_updates, comparison_functions) ==
    IF IsSequence(current_config) THEN
        IF ~IsSequence(config_updates)
        THEN [ret |-> Raise("AssertionError"), cur |-> current_config]
        ELSE IF \A n \in Range(items(current_config) \o items(config_updates)) : IsDict(n)
        THEN IF Len(items(config_updates)) = 0
             THEN [ret |-> Raise("IndexError"), cur |-> current_config]
             ELSE LET r == update_configs(items(current_config), items(config_updates)[1],
                                          comparison_functions, 1)
                  IN [ret |-> r.ret,
                      cur |-> IF IsStr(current_config) THEN current_config ELSE r.cur]
        ELSE [ret |-> config_updates, cur |-> current_config]
    ELSE IF IsDict(current_config) THEN
        IF ~IsDict(config_updates)
        THEN [ret |-> Raise("AssertionError"), cur |-> current_config]
        ELSE update_keys(current_config.v, config_updates.v, 1)
    ELSE [ret |-> config_updates, cur |-> current_config]

---------------------------------------------------------------------------
(* The inputs the calls are made on *)

MaxLen == 2   \* longest list drawn as an input
MaxNum == 1   \* largest number drawn as a scalar

ListsOver(S, n) == {List(s) : s \in UNION {[1..m -> S] : m \in 0..n}}
DictsOver(K, S) == {Dict(f) : f \in UNION {[D -> S] : D \in SUBSET K}}

Strs == {Str(<<>>), Str(<<1>>), Str(<<2>>), Str(<<2, 1>>)}
Scalars == {None, Bool(TRUE), Bool(FALSE)} \cup {Num(n) : n \in 0..MaxNum} \cup Strs

\* dicts of scalars
FlatDicts == DictsOver({"x", "y"}, Scalars)

\* lists of scalars and of dicts, and the strings (sequences too)
Elems == {Bool(TRUE), Num(0), Num(1), Str(<<1>>), Str(<<2>>),
          Dict("x" :> Num(1)), Dict("x" :> Num(1) @@ "y" :> Num(0))}
FlatLists == ListsOver(Elems, MaxLen) \cup Strs

\* one value of every shape, to call the functions on mismatched shapes
Shapes == {None, Bool(FALSE), Num(1), Str(<<>>), Str(<<2, 1>>),
           List(<<>>), List(<<Num(1)>>), List(<<Str(<<1>>)>>), List(<<Dict("x" :> Num(1))>>),
           Dict(EmptyDict), Dict("x" :> Num(1)), Dict("x" :> List(<<Num(1)>>))}

\* dicts of dicts and lists, two and three levels deep
Inner == {Num(0), Num(1), Str(<<1>>),
          List(<<>>), List(<<Num(1)>>), List(<<Str(<<1>>)>>),
          Dict(EmptyDict), Dict("z" :> Num(0)), Dict("z" :> Num(1))}
NestedDicts == DictsOver({"x", "y"}, Inner)
DeepDicts == {Dict("x" :> d) : d \in NestedDicts}

\* lists of configs, the update templates and the predicates of update
Configs ==
    {Dict(f) : f \in UNION {[D -> {Num(0), Num(1)}] : D \in {{"x"}, {"x", "y"}}}}
    \cup {Dict("x" :> Num(1) @@ "z" :> Dict("y" :> Num(0))),
          Dict("x" :> Num(0) @@ "z" :> List(<<Dict("x" :> Num(0)), Dict("x" :> Num(1))>>))}
Templates ==
    {Dict(f) : f \in UNION {[D -> {None, Num(0), Num(1)}] :
                               D \in {{"x"}, {"y"}, {"x", "y"}, {"y", "z"}}}}
    \cup {Dict("z" :> Dict("x" :> Num(1) @@ "y" :> Num(1))),
          Dict("x" :> Num(1) @@ "z" :> List(<<Dict("x" :> Num(0))>>))}
Predicate(field, cmp, target) == [field |-> field, cmp |-> cmp, target |-> target]
PredicateLists == {<<>>,
                   <<Predicate("x", ">=", Num(1))>>,
                   <<Predicate("y", "==", Num(0))>>,
                   <<Predicate("x", "<=", Num(0)), Predicate("y", "!=", Num(1))>>}

\* no validation is running
RulesOff ==
    /\ validation_rules = <<>> /\ module_i = 0 /\ rule_i = 0 /\ results = <<>>
    /\ stdout = <<>> /\ raised = None /\ vpc = "off" /\ env_i = 0

\* no call of merge, remove or update is made
AlgebraOff ==
    /\ in_a = None /\ in_b = None /\ in_preds = <<>> /\ op = "idle"
    /\ out = None /\ post_a = None /\ post_b = None

\* no rule is being dispatched
DispatchOff ==
    /\ disp_rule = None /\ disp_input = None /\ disp_calls = <<>> /\ disp_result = None
    /\ dpc = "off"

\* no predicate is being compiled
PredicateOff ==
    /\ words = <<>> /\ str_predicate = <<>> /\ compiled = None /\ pred_config = None
    /\ verdict = None /\ ppc = "off"

\* no command is running
CommandOff ==
    /\ cli_args = None /\ disk = <<>> /\ asset_config = <<>> /\ asset_i = 0 /\ channel_i = 0
    /\ cmd_stdout = <<>> /\ cmd_raised = None /\ cpc = "off"

\* solve is not called
SolveOff ==
    clauses = {} /\ solved = [raised |-> "", value |-> {}] /\ spc = "off"

\* class_annos_to_name is not called
NamingOff ==
    name_annos = None /\ name_result = None /\ npc = "off"

\* only the named part of the program runs
OffExcept(part) ==
    /\ IF part = "algebra" THEN TRUE ELSE AlgebraOff
    /\ IF part = "rules" THEN TRUE ELSE RulesOff
    /\ IF part = "dispatch" THEN TRUE ELSE DispatchOff
    /\ IF part = "predicate" THEN TRUE ELSE PredicateOff
    /\ IF part = "command" THEN TRUE ELSE CommandOff
    /\ IF part = "solve" THEN TRUE ELSE SolveOff
    /\ IF part = "naming" THEN TRUE ELSE NamingOff

TypeOK ==
    /\ op \in {"idle", "merge", "remove", "update"}
    /\ in_preds \in PredicateLists

Init ==
    /\ op = "idle"
    /\ \/ in_a \in FlatDicts /\ in_b \in FlatDicts /\ in_preds = <<>>
       \/ in_a \in FlatLists /\ in_b \in FlatLists /\ in_preds = <<>>
       \/ in_a \in Shapes /\ in_b \in Shapes /\ in_preds = <<>>
       \/ in_a \in NestedDicts /\ in_b \in NestedDicts /\ in_preds = <<>>
       \/ in_a \in DeepDicts /\ in_b \in DeepDicts /\ in_preds = <<>>
       \/ /\ in_a \in ListsOver(Configs, MaxLen)
          /\ in_b \in {List(<<t>>) : t \in Templates}
          /\ in_preds \in PredicateLists
       \/ /\ in_a \in {Dict("z" :> l) : l \in ListsOver(Configs, MaxLen)}
          /\ in_b \in {Dict("z" :> List(<<t>>)) : t \in Templates}
          /\ in_preds \in PredicateLists
    /\ out = None
    /\ post_a = in_a
    /\ post_b = in_b
    /\ OffExcept("algebra")

\* merge(a, b): md = deepcopy(a) is the only object assigned to
DoMerge ==
    /\ op = "idle"
    /\ op' = "merge"
    /\ out' = merge(in_a, in_b)
    /\ post_a' = in_a
    /\ post_b' = in_b
    /\ UNCHANGED <<in_a, in_b, in_preds>>
    /\ UNCHANGED not_algebra_vars

\* remove(a, b): m = deepcopy(a) and retained are the only objects assigned to
DoRemove ==
    /\ op = "idle"
    /\ op' = "remove"
    /\ out' = remove(in_a, in_b)
    /\ post_a' = in_a
    /\ post_b' = in_b
    /\ UNCHANGED <<in_a, in_b, in_preds>>
    /\ UNCHANGED not_algebra_vars

\* update(current_config, config_updates, comparison_functions) assigns into current_config
DoUpdate ==
    /\ op = "idle"
    /\ op' = "update"
    /\ LET r == update(in_a, in_b, in_preds) IN
           /\ out' = r.ret
           /\ post_a' = r.cur
    /\ post_b' = in_b
    /\ UNCHANGED <<in_a, in_b, in_preds>>
    /\ UNCHANGED not_algebra_vars

Next == DoMerge \/ DoRemove \/ DoUpdate

Spec == Init /\ [][Next]_vars

---------------------------------------------------------------------------
(* The validation-rule engine *)

ENFORCE == "ENFORCE"
COMPLAIN == "COMPLAIN"

\* ValidationRuleEnv, whose .value is the name of an environment
PRODUCTION_ONLY == [k |-> "enum", v |-> "production"]
STAGING_ONLY == [k |-> "enum", v |-> "staging"]

\* ValidationRuleInput.__init__.  A dict is the sequence of its items, each
\* [id, config], in iteration order; channel_id_to_class_annos is built from
\* the ground-station templates.
ValidationRuleInput(sat_templates_file, sat_templates, sat_configs, gs_templates_file, gs_templates, gs_configs) ==
    [sat_templates_file |-> sat_templates_file,
     sat_templates |-> sat_templates,
     sat_configs |-> sat_configs,
     gs_templates_file |-> gs_templates_file,
     gs_templates |-> gs_templates,
     gs_configs |-> gs_configs,
     channel_id_to_class_annos |->
         [channel_id \in {gs_templates[i].id : i \in 1..Len(gs_templates)} |->
             (CHOOSE t \in Range(gs_templates) : t.id = channel_id)
                 .config.classification_annotations]]

\* a channel of a template file, and a channel of an asset's file
TemplateChannel(kind, channel_id) ==
    [id |-> channel_id,
     config |-> [classification_annotations |-> <<"annotations", kind, channel_id>>]]
AssetChannel(asset, channel_id) ==
    [id |-> channel_id, config |-> [asset |-> asset, channel |-> channel_id]]

\* the templates, and the assets of an environment with their channels
SatTemplates == <<TemplateChannel("sat", "CH_A"), TemplateChannel("sat", "CH_B")>>
GsTemplates == <<TemplateChannel("gs", "CH_A"), TemplateChannel("gs", "CH_B")>>
Asset(asset, channel_ids) ==
    [id |-> asset,
     config |-> [c \in 1..Len(channel_ids) |-> AssetChannel(asset, channel_ids[c])]]

\* validation_rule_input of validate_all: two ground stations and a satellite
validation_rule_input ==
    ValidationRuleInput("sat_templates.yaml", SatTemplates,
                        <<Asset("sat1", <<"CH_A">>)>>,
                        "gs_templates.yaml", GsTemplates,
                        <<Asset("gs1", <<"CH_A", "CH_B">>), Asset("gs2", <<"CH_A">>)>>)

RECURSIVE flatten(_)
flatten(ss) == IF Len(ss) = 0 THEN <<>> ELSE Head(ss) \o flatten(Tail(ss))

\* class_annos, were the map built from the satellite templates
class_annos_of_sat_templates(input, channel_id) ==
    LET found == {t \in Range(input.sat_templates) : t.id = channel_id} IN
    IF found = {} THEN Raise("KeyError")
    ELSE (CHOOSE t \in found : TRUE).config.classification_annotations

\* input.channel_id_to_class_annos[channel_id]
class_annos(input, channel_id) ==
    IF channel_id \in DOMAIN input.channel_id_to_class_annos
    THEN input.channel_id_to_class_annos[channel_id]
    ELSE Raise("KeyError")

\* for asset_id, asset_config in configs.items(): for channel_id, channel_config in ...
channel_instances(input, configs) ==
    flatten([g \in 1..Len(configs) |->
        [c \in 1..Len(configs[g].config) |->
            LET channel_id == configs[g].config[c].id IN
            [args |-> <<"input", configs[g].id, channel_id, class_annos(input, channel_id),
                        configs[g].config[c].config>>,
             raises |-> channel_id \notin DOMAIN input.channel_id_to_class_annos,
             prefix |-> <<channel_id, " on ", configs[g].id>>]]])

\* for channel_id, channel_config in templates.items()
template_instances(input, templates, templates_file) ==
    [i \in 1..Len(templates) |->
        [args |-> <<"input", templates[i].id, class_annos(input, templates[i].id),
                    templates[i].config>>,
         raises |-> templates[i].id \notin DOMAIN input.channel_id_to_class_annos,
         prefix |-> <<templates[i].id, " in ", templates_file>>]]

\* for asset_id, asset_configs in configs.items()
asset_instances(input, configs) ==
    [g \in 1..Len(configs) |->
        [args |-> <<"input", configs[g].id, configs[g].config,
                    input.channel_id_to_class_annos>>,
         raises |-> FALSE,
         prefix |-> <<configs[g].id>>]]

\* the instances the dispatcher iterates for a scope, in order: the arguments
\* the rule's function is called with (input first), whether looking up its
\* class_annos raises KeyError, and the prefix of the case
scope_instances(scope, input) ==
    CASE scope = "GROUNDSTATION_TEMPLATE_CHANNEL" ->
           template_instances(input, input.gs_templates, input.gs_templates_file)
      [] scope = "SATELLITE_TEMPLATE_CHANNEL" ->
           template_instances(input, input.sat_templates, input.sat_templates_file)
      [] scope = "GROUNDSTATION_CHANNEL" -> channel_instances(input, input.gs_configs)
      [] scope = "SATELLITE_CHANNEL" -> channel_instances(input, input.sat_configs)
      [] scope = "SATELLITE" -> asset_instances(input, input.sat_configs)
      [] scope = "GROUNDSTATION" -> asset_instances(input, input.gs_configs)
      [] scope = "GENERAL" ->
           <<[args |-> <<"input">>, raises |-> FALSE, prefix |-> <<"General rule failure">>]>>

\* interpret_rule_result, were it to leave the reason out
interpret_rule_result_without_reason(violation_cases, rule_result, prefix) ==
    IF py_eq(rule_result, Bool(TRUE)) THEN violation_cases
    ELSE Append(violation_cases, prefix)

\* violation_cases after interpret_rule_result(violation_cases, rule_result, prefix)
interpret_rule_result(violation_cases, rule_result, prefix) ==
    IF py_eq(rule_result, Bool(TRUE)) THEN violation_cases
    ELSE IF IsStr(rule_result)
         THEN Append(violation_cases, prefix \o <<": ", rule_result>>)
         ELSE Append(violation_cases, prefix)

\* the instances the function is called on: all of them, or those up to the
\* first whose class_annos lookup raises KeyError
called_instances(instances) ==
    LET bad == {i \in 1..Len(instances) : instances[i].raises}
    IN IF bad = {} THEN instances
       ELSE SubSeq(instances, 1, (CHOOSE i \in bad : \A j \in bad : i <= j) - 1)

RECURSIVE wrapper_cases(_, _, _, _)
wrapper_cases(instances, func, i, violation_cases) ==
    IF i > Len(instances) THEN violation_cases
    ELSE wrapper_cases(instances, func, i + 1,
                       interpret_rule_result(violation_cases, func[i], instances[i].prefix))

\* rule.function(input): the decorated rule.  rule.func is what the rule's own
\* function returns on the i-th instance of its scope.
wrapper(rule, input) ==
    LET instances == scope_instances(rule.scope, input)
        violation_cases == wrapper_cases(called_instances(instances), rule.func, 1, <<>>)
    IN IF Len(called_instances(instances)) < Len(instances) THEN Raise("KeyError")
       ELSE IF Len(violation_cases) > 0
       THEN [description |-> rule.description, mode |-> rule.mode, scope |-> rule.scope,
             violation_cases |-> violation_cases]
       ELSE None

\* ValidationError(Exception("One or more enforced validation rules failed")):
\* message is the text the exception is built from, as the parts it is made of
ValidationError ==
    [type |-> "ValidationError",
     message |-> <<(<<"One or more enforced validation rules failed">>)>>]

MaxRules == 3   \* most rules selected for one run

\* a rule's scope, mode, env (None unless the decorator is given one) and the
\* results of its function over the scope's instances
RuleVariants ==
    {[scope |-> sc, mode |-> m, env |-> None, func |-> f] :
        sc \in {"GENERAL"}, m \in {ENFORCE, COMPLAIN},
        f \in {<<Bool(TRUE)>>, <<Bool(FALSE)>>}}
    \cup
    {[scope |-> sc, mode |-> m, env |-> None, func |-> f] :
        sc \in {"GROUNDSTATION"}, m \in {ENFORCE, COMPLAIN},
        f \in {<<Bool(TRUE), Bool(TRUE)>>, <<Bool(FALSE), Str(<<1>>)>>}}

ModuleNames == <<"regulatory.sband", "scheduling.window_params">>

\* how many rules each selected module holds (a selected module holds at least one)
ModuleRuleCounts ==
    {<<n>> : n \in 1..MaxRules}
    \cup {<<c[1], c[2]>> : c \in {c \in (1..MaxRules) \X (1..MaxRules) : c[1] + c[2] <= MaxRules}}

\* the i-th rule registered by a module
ValidationRule(module, i, variant) ==
    [module |-> module, name |-> i, description |-> <<"description of", module, i>>,
     scope |-> variant.scope, mode |-> variant.mode, env |-> variant.env,
     func |-> variant.func]

InitRules ==
    /\ \E counts \in ModuleRuleCounts :
       \E pick \in [1..(counts[1] + IF Len(counts) > 1 THEN counts[2] ELSE 0) -> RuleVariants] :
           validation_rules =
               [m \in 1..Len(counts) |->
                   [module |-> ModuleNames[m],
                    rules |-> [i \in 1..counts[m] |->
                                  ValidationRule(ModuleNames[m], i,
                                      pick[IF m = 1 THEN i ELSE counts[1] + i])]]]
    /\ module_i = 1 /\ rule_i = 1
    /\ results = <<>>
    /\ stdout = <<>>
    /\ raised = None
    /\ vpc = "rules"
    /\ env_i = 0
    /\ OffExcept("rules")

\* the lines run_validation_rule prints for a rule and its result
rule_lines(rule, result) ==
    <<[kind |-> "Rule", module |-> rule.module, name |-> rule.name,
       verdict |-> IF result = None THEN "PASS" ELSE "FAIL"]>>

\* RunValidationRule, were it to raise as soon as an enforced rule is violated
RunValidationRuleFailFast ==
    /\ vpc = "rules"
    /\ module_i <= Len(validation_rules)
    /\ LET module_rules == validation_rules[module_i].rules
           rule == module_rules[rule_i]
           result == wrapper(rule, validation_rule_input)
       IN /\ stdout' = stdout \o rule_lines(rule, result)
          /\ results' = setitem(results, <<rule.module, rule.name>>,
                                [rule |-> rule, result |-> result])
          /\ IF rule_i < Len(module_rules)
             THEN rule_i' = rule_i + 1 /\ module_i' = module_i
             ELSE rule_i' = 1 /\ module_i' = module_i + 1
          /\ IF result # None /\ result.mode = ENFORCE
             THEN raised' = ValidationError /\ vpc' = "raised"
             ELSE UNCHANGED <<raised, vpc>>
    /\ UNCHANGED <<validation_rules, env_i>>
    /\ UNCHANGED not_rules_vars

\* one turn of the loops of run_validation_rules: run_validation_rule on the
\* rule at (module_i, rule_i), its result stored under "module.name"
RunValidationRule ==
    /\ vpc = "rules"
    /\ module_i <= Len(validation_rules)
    /\ LET module_rules == validation_rules[module_i].rules
           rule == module_rules[rule_i]
           result == wrapper(rule, validation_rule_input)
       IN /\ stdout' = stdout
                \o (IF rule_i = 1
                    THEN <<[kind |-> "Module", module |-> validation_rules[module_i].module]>>
                    ELSE <<>>)
                \o rule_lines(rule, result)
          /\ results' = setitem(results, <<rule.module, rule.name>>,
                                [rule |-> rule, result |-> result])
          /\ IF rule_i < Len(module_rules)
             THEN rule_i' = rule_i + 1 /\ module_i' = module_i
             ELSE rule_i' = 1 /\ module_i' = module_i + 1
    /\ UNCHANGED <<validation_rules, raised, vpc, env_i>>
    /\ UNCHANGED not_rules_vars

\* the keys of results, in the order they were inserted
rulestrings ==
    flatten([m \in 1..Len(validation_rules) |->
        [i \in 1..Len(validation_rules[m].rules) |->
            <<validation_rules[m].module, validation_rules[m].rules[i].name>>]])

fail_results ==
    SelectSeq(rulestrings, LAMBDA r : r \in DOMAIN results /\ results[r].result # None)

complain_fail_results ==
    SelectSeq(fail_results, LAMBDA r : results[r].result.mode = COMPLAIN)

\* enforce_fail_results, were it to take the failures of every mode
enforce_fail_results_of_any_mode ==
    fail_results

enforce_fail_results ==
    SelectSeq(fail_results, LAMBDA r : results[r].result.mode = ENFORCE)

\* the WARN / ERROR block printed for a failed rule
report_line(kind, r) ==
    [kind |-> kind, name |-> results[r].rule.name, mode |-> results[r].result.mode,
     module |-> results[r].rule.module, description |-> results[r].result.description,
     violation_cases |-> results[r].result.violation_cases]

\* after the loops: the warnings, the errors, and the raise if a rule was enforced
Report ==
    /\ vpc = "rules"
    /\ module_i > Len(validation_rules)
    /\ stdout' = stdout
           \o [i \in 1..Len(complain_fail_results) |-> report_line("WARN", complain_fail_results[i])]
           \o [i \in 1..Len(enforce_fail_results) |-> report_line("ERROR", enforce_fail_results[i])]
    /\ IF Len(enforce_fail_results) > 0
       THEN raised' = ValidationError /\ vpc' = "raised"
       ELSE raised' = None /\ vpc' = "returned"
    /\ UNCHANGED <<validation_rules, module_i, rule_i, results, env_i>>
    /\ UNCHANGED not_rules_vars

NextRules == RunValidationRule \/ Report

SpecRules == InitRules /\ [][NextRules]_vars

---------------------------------------------------------------------------
(* The dispatcher alone: the wrapper of one decorated rule called on one input *)

MaxAssets == 2   \* most assets of a kind in the input

Scopes == {"GROUNDSTATION_TEMPLATE_CHANNEL", "SATELLITE_TEMPLATE_CHANNEL",
           "GROUNDSTATION_CHANNEL", "SATELLITE_CHANNEL",
           "SATELLITE", "GROUNDSTATION", "GENERAL"}

\* what a rule's function returns: Union[str, bool]
Verdicts == {Bool(TRUE), Bool(FALSE), Str(<<1>>)}

\* the channels an asset's file may hold, in the order of the file
ChannelLists == {<<>>, <<"CH_A">>, <<"CH_B">>, <<"CH_A", "CH_B">>, <<"CH_B", "CH_A">>}

\* the files of up to MaxAssets assets of a kind ("gs" or "sat")
AssetConfigs(kind) ==
    UNION {{[g \in 1..n |-> Asset(<<kind, g>>, lists[g])] : lists \in [1..n -> ChannelLists]} :
              n \in 0..MaxAssets}

\* the channels of the two template files: the same ids, in either order
TemplateIds == {<<(<<"CH_A">>), (<<"CH_A">>)>>,
                <<(<<"CH_A", "CH_B">>), (<<"CH_A", "CH_B">>)>>,
                <<(<<"CH_A", "CH_B">>), (<<"CH_B", "CH_A">>)>>}
Templates_of(kind, ids) == [i \in 1..Len(ids) |-> TemplateChannel(kind, ids[i])]

\* the inputs a rule of the given scope is dispatched on
DispatchInputs(scope) ==
    IF scope \in {"GROUNDSTATION_CHANNEL", "GROUNDSTATION"} THEN
        {ValidationRuleInput("sat_templates.yaml", SatTemplates, <<Asset(<<"sat", 1>>, <<"CH_A">>)>>,
                             "gs_templates.yaml", GsTemplates, configs) :
            configs \in AssetConfigs("gs")}
    ELSE IF scope \in {"SATELLITE_CHANNEL", "SATELLITE"} THEN
        {ValidationRuleInput("sat_templates.yaml", SatTemplates, configs,
                             "gs_templates.yaml", GsTemplates, <<Asset(<<"gs", 1>>, <<"CH_B">>)>>) :
            configs \in AssetConfigs("sat")}
    ELSE
        {ValidationRuleInput("sat_templates.yaml", Templates_of("sat", ids[2]),
                             <<Asset(<<"sat", 1>>, <<"CH_A">>)>>,
                             "gs_templates.yaml", Templates_of("gs", ids[1]),
                             <<Asset(<<"gs", 1>>, <<"CH_A">>)>>) :
            ids \in TemplateIds}

InitDispatch ==
    /\ \E scope \in Scopes, mode \in {ENFORCE, COMPLAIN} :
       \E input \in DispatchInputs(scope) :
       \E func \in [1..Len(scope_instances(scope, input)) -> Verdicts] :
           /\ disp_rule = [scope |-> scope, mode |-> mode, env |-> None, func |-> func,
                           description |-> <<"description of", scope>>]
           /\ disp_input = input
    /\ disp_calls = <<>>
    /\ disp_result = None
    /\ dpc = "ready"
    /\ OffExcept("dispatch")

\* wrapper(input): every call of the rule's function, then the return
Dispatch ==
    /\ dpc = "ready"
    /\ LET called == called_instances(scope_instances(disp_rule.scope, disp_input)) IN
           disp_calls' = [i \in 1..Len(called) |-> called[i].args]
    /\ disp_result' = wrapper(disp_rule, disp_input)
    /\ dpc' = "done"
    /\ UNCHANGED <<disp_rule, disp_input>>
    /\ UNCHANGED not_dispatch_vars

NextDispatch == Dispatch

SpecDispatch == InitDispatch /\ [][NextDispatch]_vars

---------------------------------------------------------------------------
(* validate_all: the rules once selected, every environment of ENVS in turn. *)
(* The schema and template checks made before the rules are taken to pass.  *)

ENVS == <<"staging", "production">>

\* filter_validation_rules_by_env(validation_rules, target_environment)
filter_validation_rules_by_env(rules, target_environment) ==
    LET module_env_rules(m) ==
            SelectSeq(rules[m].rules,
                      LAMBDA rule : ~truthy(rule.env) \/ rule.env.v = target_environment)
        kept == SelectSeq([m \in 1..Len(rules) |-> m],
                          LAMBDA m : Len(module_env_rules(m)) > 0)
    IN [j \in 1..Len(kept) |->
           [module |-> rules[kept[j]].module, rules |-> module_env_rules(kept[j])]]

\* rules declared for one environment or for all, passing or failing in either mode
EnvRuleVariants ==
    {[scope |-> "GENERAL", mode |-> mf[1], env |-> e, func |-> <<mf[2]>>] :
        e \in {None, PRODUCTION_ONLY, STAGING_ONLY},
        mf \in {<<ENFORCE, Bool(TRUE)>>, <<ENFORCE, Bool(FALSE)>>, <<COMPLAIN, Bool(FALSE)>>}}

InitValidateAll ==
    /\ \E n \in 1..MaxRules :
       \E pick \in [1..n -> EnvRuleVariants] :
           validation_rules =
               <<[module |-> ModuleNames[1],
                  rules |-> [i \in 1..n |-> ValidationRule(ModuleNames[1], i, pick[i])]]>>
    /\ env_i = 1
    /\ module_i = 0 /\ rule_i = 0
    /\ results = <<>>
    /\ stdout = <<>>
    /\ raised = None
    /\ vpc = "env"
    /\ OffExcept("rules")

\* one turn of "for env in ENVS", up to the call of run_validation_rules
ValidateEnv ==
    /\ vpc = "env"
    /\ env_i \in 1..Len(ENVS)
    /\ stdout' = Append(stdout, [kind |-> "Running", env |-> ENVS[env_i]])
    /\ results' = <<>>
    /\ module_i' = 1 /\ rule_i' = 1
    /\ vpc' = "rules"
    /\ UNCHANGED <<validation_rules, raised, env_i>>
    /\ UNCHANGED not_rules_vars

\* run_validation_rules returned: the end of the turn, and the next environment
ValidationComplete ==
    /\ vpc = "returned"
    /\ env_i \in 1..Len(ENVS)
    /\ stdout' = Append(stdout, [kind |-> "Complete", env |-> ENVS[env_i]])
    /\ IF env_i < Len(ENVS)
       THEN env_i' = env_i + 1 /\ vpc' = "env"
       ELSE env_i' = env_i /\ vpc' = "done"
    /\ UNCHANGED <<validation_rules, module_i, rule_i, results, raised>>
    /\ UNCHANGED not_rules_vars

NextValidateAll == ValidateEnv \/ RunValidationRule \/ Report \/ ValidationComplete

SpecValidateAll == InitValidateAll /\ [][NextValidateAll]_vars

---------------------------------------------------------------------------
(* compile_predicate.  A text is the sequence of its character codes, over   *)
(* the letters f o x y z, the digits, space and the signs ! + - < = >.       *)

\* str.split(sep): the pieces between the separators; never an empty list
RECURSIVE split(_, _)
split(s, sep) ==
    IF \A i \in 1..Len(s) : s[i] # sep THEN <<s>>
    ELSE LET i == CHOOSE i \in 1..Len(s) : s[i] = sep /\ \A j \in 1..(i - 1) : s[j] # sep
         IN <<SubSeq(s, 1, i - 1)>> \o split(SubSeq(s, i + 1, Len(s)), sep)

\* the number a string of digits denotes
RECURSIVE int_of_digits(_)
int_of_digits(ds) ==
    IF Len(ds) = 0 THEN 0
    ELSE 10 * int_of_digits(SubSeq(ds, 1, Len(ds) - 1)) + (ds[Len(ds)] - 48)

\* float(s): over these characters a float is an optional sign and digits;
\* anything else raises ValueError
float(s) ==
    LET signed == Len(s) > 0 /\ s[1] \in {43, 45}
        digits == IF signed THEN Tail(s) ELSE s
    IN IF Len(digits) > 0 /\ \A i \in 1..Len(digits) : digits[i] \in 48..57
       THEN Num(IF signed /\ s[1] = 45 THEN 0 - int_of_digits(digits) ELSE int_of_digits(digits))
       ELSE Raise("ValueError")

\* the keys of comparator_to_lambda as they are spelled: <= >= < > == !=
LTE == <<60, 61>>
GTE == <<62, 61>>
LT == <<60>>
GT == <<62>>
EQ == <<61, 61>>
NEQ == <<33, 61>>
VALID_COMPARATORS == <<LTE, GTE, LT, GT, EQ, NEQ>>

\* the comparator a key names
comparator_of(key) ==
    CASE key = LTE -> "<=" [] key = GTE -> ">=" [] key = LT -> "<"
      [] key = GT -> ">" [] key = EQ -> "==" [] key = NEQ -> "!="

\* the dict key a field name is: the records hold the keys x, y and z, any
\* other name is a key no record holds
key_of(field_name) ==
    CASE field_name = <<120>> -> "x"
      [] field_name = <<121>> -> "y"
      [] field_name = <<122>> -> "z"
      [] OTHER -> "no such key"

\* a function object: here always a predicate_func closure
Function(closure) == [k |-> "function", v |-> closure]

\* compile_predicate, were it to keep the target as the text it is
compile_predicate_keeping_text(text) ==
    LET predicate == split(text, 32) IN
    IF Len(predicate) < 3 THEN Raise("IndexError")
    ELSE IF predicate[2] \notin Range(VALID_COMPARATORS)
         THEN [k |-> "error", v |-> "ValueError",
               message |-> <<"Invalid comparator ", predicate[2],
                             ". Valid options are: ", VALID_COMPARATORS>>]
         ELSE Function(Predicate(key_of(predicate[1]), comparator_of(predicate[2]),
                                 Str(predicate[3])))

\* compile_predicate, were it to take an unknown comparator for ==
compile_predicate_defaulting(text) ==
    LET predicate == split(text, 32) IN
    IF Len(predicate) < 3 THEN Raise("IndexError")
    ELSE LET target_value == IF IsError(float(predicate[3])) THEN Str(predicate[3])
                             ELSE float(predicate[3])
             comparator == IF predicate[2] \in Range(VALID_COMPARATORS)
                           THEN comparator_of(predicate[2]) ELSE "=="
         IN Function(Predicate(key_of(predicate[1]), comparator, target_value))

\* compile_predicate(str_predicate): predicate[1] and predicate[2] raise
\* IndexError on a text of one or two words, before the comparator is looked at
compile_predicate(text) ==
    LET predicate == split(text, 32) IN
    IF Len(predicate) < 2 THEN Raise("IndexError")
    ELSE IF Len(predicate) < 3 THEN Raise("IndexError")
    ELSE LET target_value == IF IsError(float(predicate[3])) THEN Str(predicate[3])
                             ELSE float(predicate[3])
         IN IF predicate[2] \notin Range(VALID_COMPARATORS)
            THEN [k |-> "error", v |-> "ValueError",
                  message |-> <<"Invalid comparator ", predicate[2],
                                ". Valid options are: ", VALID_COMPARATORS>>]
            ELSE Function(Predicate(key_of(predicate[1]), comparator_of(predicate[2]),
                                    target_value))

MaxWords == 4   \* most words joined into a text

\* the words of the texts: field names (x, y, foo), comparators and near misses
\* (=, =>), values (1, 0, 10, -1, -, foo, x)
FieldWords == {<<120>>, <<121>>, <<102, 111, 111>>}
ComparatorWords == Range(VALID_COMPARATORS) \cup {<<61>>, <<61, 62>>}
ValueWords == {<<49>>, <<48>>, <<49, 48>>, <<45, 49>>, <<45>>, <<102, 111, 111>>, <<120>>}
MoreWords == {<<49>>, <<102, 111, 111>>}

WordLists ==
    UNION {{ws \in [1..n -> FieldWords \cup ComparatorWords \cup ValueWords] :
               /\ ws[1] \in FieldWords
               /\ n >= 2 => ws[2] \in ComparatorWords
               /\ n >= 3 => ws[3] \in ValueWords
               /\ \A i \in 4..n : ws[i] \in MoreWords} : n \in 1..MaxWords}

\* " ".join(ws)
RECURSIVE join(_)
join(ws) ==
    IF Len(ws) = 0 THEN <<>>
    ELSE IF Len(ws) = 1 THEN ws[1]
    ELSE ws[1] \o <<32>> \o join(Tail(ws))

\* the records a predicate is applied to
PredicateConfigs ==
    {Dict(EmptyDict), Dict("y" :> Num(1)), Dict("x" :> Str(<<102, 111, 111>>)),
     Dict("x" :> Str(<<49>>)), Dict("x" :> Bool(TRUE)),
     Dict("x" :> Num(1) @@ "y" :> Str(<<120>>))}
    \cup {Dict("x" :> Num(n)) : n \in {-1, 0, 1, 9, 10, 11}}

InitPredicate ==
    /\ words \in WordLists
    /\ str_predicate = join(words)
    /\ pred_config \in PredicateConfigs
    /\ compiled = None
    /\ verdict = None
    /\ ppc = "text"
    /\ OffExcept("predicate")

\* compile_predicate(str_predicate)
CompilePredicate ==
    /\ ppc = "text"
    /\ compiled' = compile_predicate(str_predicate)
    /\ ppc' = IF IsError(compile_predicate(str_predicate)) THEN "failed" ELSE "compiled"
    /\ UNCHANGED <<words, str_predicate, pred_config, verdict>>
    /\ UNCHANGED not_predicate_vars

\* predicate_func(config)
ApplyPredicate ==
    /\ ppc = "compiled"
    /\ verdict' = predicate_func(compiled.v, pred_config)
    /\ ppc' = "applied"
    /\ UNCHANGED <<words, str_predicate, compiled, pred_config>>
    /\ UNCHANGED not_predicate_vars

NextPredicate == CompilePredicate \/ ApplyPredicate

SpecPredicate == InitPredicate /\ [][NextPredicate]_vars

---------------------------------------------------------------------------
(* The command layer: add_config and edit_config, each handing a transform  *)
(* to apply_update.  An asset file is a function from channel ids to        *)
(* channel definitions; a channel definition is a dict over schema fields.  *)

\* schema_fields(): the fields the command line can give a value for.  The
\* loop of modify handles each field on its own, so its order does not matter.
SchemaFields == <<"enabled", "link_profile">>

\* get_field_value(field): the value given on the command line, None if none
get_field_value(vargs, field) == vargs[field]

\* cdef.get(field, {})
get_field(cdef, field) == IF field \in DOMAIN cdef THEN cdef[field] ELSE Dict(EmptyDict)

\* the operation of args.mode on a field: what it yields (ret) and the value
\* it was handed, afterwards (cur)
field_operation(mode, had, val, predicate) ==
    CASE mode = "overwrite" -> [ret |-> val, cur |-> had]
      [] mode = "merge" -> [ret |-> merge(had, val), cur |-> had]
      [] mode = "remove" -> [ret |-> remove(had, val), cur |-> had]
      [] mode = "update" -> update(had, val, predicate)

\* for field in fields, from the i-th field on.  cdef is the definition handed
\* in, which update assigns into; new_cdef is its deepcopy.
RECURSIVE modify_fields(_, _, _, _)
RECURSIVE modify_field(_, _, _, _, _)

\* the i-th field, r being what its operation did
modify_field(cdef, new_cdef, vargs, i, r) ==
    IF IsError(r.ret)
    THEN [ret |-> Raise("Exception"),
          cur |-> Dict(IF SchemaFields[i] \in DOMAIN cdef
                       THEN setitem(cdef, SchemaFields[i], r.cur) ELSE cdef)]
    ELSE modify_fields(IF SchemaFields[i] \in DOMAIN cdef
                       THEN setitem(cdef, SchemaFields[i], r.cur) ELSE cdef,
                       setitem(new_cdef, SchemaFields[i], r.ret), vargs, i + 1)

modify_fields(cdef, new_cdef, vargs, i) ==
    IF i > Len(SchemaFields) THEN [ret |-> Dict(new_cdef), cur |-> Dict(cdef)]
    ELSE IF get_field_value(vargs, SchemaFields[i]) = None
    THEN modify_fields(cdef, new_cdef, vargs, i + 1)
    ELSE modify_field(cdef, new_cdef, vargs, i,
                      field_operation(vargs.mode, get_field(cdef, SchemaFields[i]),
                                      get_field_value(vargs, SchemaFields[i]),
                                      vargs.predicate))

\* modify(cdef, args): what it returns (ret) and cdef afterwards (cur)
modify(cdef, vargs) == modify_fields(cdef.v, cdef.v, vargs, 1)

\* the template of a channel: the seed of add
find_template(asset_type, channel) ==
    Dict("enabled" :> Bool(TRUE)
         @@ "link_profile" :> List(<<Dict("x" :> Num(0)), Dict("x" :> Num(1) @@ "y" :> Num(0))>>))

\* the channel definitions of the schema: enabled a boolean, link_profile a
\* list of mappings
conforms_to_schema(config) ==
    /\ IsDict(config)
    /\ "enabled" \in DOMAIN config.v => config.v["enabled"].k = "bool"
    /\ "link_profile" \in DOMAIN config.v =>
           /\ IsList(config.v["link_profile"])
           /\ \A n \in Range(config.v["link_profile"].v) : IsDict(n)

\* a printed line
Line(kind, asset, channel) == [kind |-> kind, asset |-> asset, channel |-> channel]

\* do_add(asset, channel, existing): what it returns or raises (ret), existing
\* afterwards (cur) and the lines it printed
do_add(asset, channel, existing, vargs) ==
    IF existing = None THEN
        [ret |-> modify(find_template("groundstation", channel), vargs).ret,
         cur |-> existing, lines |-> <<>>]
    ELSE IF ~vargs.fail_fast THEN
        [ret |-> existing, cur |-> existing,
         lines |-> <<Line("warn: already exists", asset, channel)>>]
    ELSE [ret |-> Raise("AlreadyExistsError"), cur |-> existing, lines |-> <<>>]

\* do_edit(asset, channel, existing)
do_edit(asset, channel, existing, vargs) ==
    IF existing # None THEN
        modify(existing, vargs) @@ [lines |-> <<>>]
    ELSE IF ~vargs.fail_fast THEN
        [ret |-> None, cur |-> existing,
         lines |-> <<Line("warn: no configuration", asset, channel)>>]
    ELSE [ret |-> Raise("NoConfigurationError"), cur |-> existing, lines |-> <<>>]

\* the transform add_config / edit_config hands to apply_update
tfm(asset, channel, existing, vargs) ==
    IF vargs.command = "add" THEN do_add(asset, channel, existing, vargs)
    ELSE do_edit(asset, channel, existing, vargs)

\* asset_config.get(channel)
get_channel(config, channel) == IF channel \in DOMAIN config THEN config[channel] ELSE None

\* the rest of the body of "for channel in channels" once the transform has
\* returned or raised (t): the schema check, the confirmation, the assignment
store_channel(config, asset, channel, vargs, answer, t) ==
    LET \* the transform worked on the object the config holds
        held == IF channel \in DOMAIN config THEN setitem(config, channel, t.cur) ELSE config
        existing_chan == IF channel \in DOMAIN config THEN t.cur ELSE None
        asked == IF vargs.yes THEN <<>> ELSE <<Line("Changing", asset, channel)>>
    IN IF IsError(t.ret) THEN
           IF t.ret.v \in {"AlreadyExistsError", "DuplicateError"}
           THEN [config |-> held, raised |-> None,
                 lines |-> t.lines \o <<Line("err: Error", asset, channel)>>]
           ELSE [config |-> held, raised |-> t.ret,
                 lines |-> t.lines \o <<Line("err: Unhandled exception", asset, channel)>>]
       ELSE IF t.ret # None /\ ~conforms_to_schema(t.ret) THEN
           [config |-> held, raised |-> Raise("ValidationError"),
            lines |-> t.lines \o <<Line("err: Unhandled exception", asset, channel)>>]
       ELSE IF py_eq(t.ret, existing_chan) THEN
           [config |-> held, raised |-> None,
            lines |-> t.lines \o <<Line("No changes", asset, channel)>>]
       ELSE IF ~vargs.yes /\ ~answer THEN
           [config |-> held, raised |-> None,
            lines |-> t.lines \o asked \o <<Line("warn: Canceled.", asset, channel)>>]
       ELSE IF t.ret = None THEN
           [config |-> del(held, channel), raised |-> None,
            lines |-> t.lines \o asked \o <<Line("Deleted", asset, channel)>>]
       ELSE [config |-> setitem(held, channel, t.ret), raised |-> None,
             lines |-> t.lines \o asked \o <<Line("Updated", asset, channel)>>]

\* the body of "for channel in channels" for one channel: the asset's config
\* afterwards, the lines printed, and the exception that leaves the loop.
\* answer is what the user answers if asked to confirm.
apply_update_channel(config, asset, channel, vargs, answer) ==
    store_channel(config, asset, channel, vargs, answer,
                  tfm(asset, channel, get_channel(config, channel), vargs))

\* the ground stations of the environment
AssetIds == {<<"gs", g>> : g \in 1..MaxAssets}

\* what an asset's file may hold
OtherDefinition ==
    Dict("enabled" :> Bool(FALSE) @@ "link_profile" :> List(<<Dict("x" :> Num(1) @@ "y" :> Num(0))>>))
AssetFiles ==
    {<<>>,
     "CH_A" :> find_template("groundstation", "CH_A"),
     "CH_B" :> OtherDefinition,
     "CH_A" :> OtherDefinition @@ "CH_B" :> find_template("groundstation", "CH_B")}

\* the editing flags: a mode, the value of one field, and the predicates
Flags(mode, field, val, predicate) ==
    [mode |-> mode, predicate |-> predicate,
     enabled |-> IF field = "enabled" THEN val ELSE None,
     link_profile |-> IF field = "link_profile" THEN val ELSE None]
EditingFlags ==
    {Flags("overwrite", "enabled", Bool(TRUE), <<>>),
     Flags("overwrite", "enabled", Bool(FALSE), <<>>),
     Flags("merge", "enabled", Bool(TRUE), <<>>),
     Flags("merge", "link_profile", List(<<Dict("x" :> Num(1))>>), <<>>),
     Flags("remove", "enabled", Bool(TRUE), <<>>),
     Flags("remove", "link_profile", List(<<Dict("x" :> Num(0))>>), <<>>),
     Flags("remove", "link_profile", List(<<Dict("x" :> Num(1) @@ "y" :> Num(0))>>), <<>>),
     Flags("update", "enabled", Bool(FALSE), <<>>),
     Flags("update", "link_profile", List(<<Dict("x" :> Num(1))>>), <<>>),
     Flags("update", "link_profile", List(<<Dict("x" :> Num(1))>>),
           <<Predicate("x", "<=", Num(0))>>),
     Flags("update", "link_profile", List(<<Dict("x" :> Num(0))>>),
           <<Predicate("y", "==", Num(0))>>)}

\* the command lines: add or edit, on every asset, one or two channels
CommandLines ==
    {[command |-> command,
      assets |-> [g \in 1..MaxAssets |-> <<"gs", g>>],
      channels |-> channels,
      mode |-> flags.mode, predicate |-> flags.predicate,
      enabled |-> flags.enabled, link_profile |-> flags.link_profile,
      fail_fast |-> fail_fast, yes |-> yes] :
        command \in {"add", "edit"}, channels \in {<<"CH_A">>, <<"CH_A", "CH_B">>, <<"CH_B", "CH_A">>},
        flags \in EditingFlags, fail_fast \in BOOLEAN, yes \in BOOLEAN}

InitCommand ==
    /\ cli_args \in CommandLines
    /\ disk \in [AssetIds -> AssetFiles]
    /\ asset_config = <<>>
    /\ asset_i = 1
    /\ channel_i = 0
    /\ cmd_stdout = <<>>
    /\ cmd_raised = None
    /\ cpc = "asset"
    /\ OffExcept("command")

\* for asset in locate_assets(env, assets): asset_config = load_asset_config(env, asset)
LoadAssetConfig ==
    /\ cpc = "asset"
    /\ IF asset_i > Len(cli_args.assets)
       THEN /\ cpc' = "done"
            /\ UNCHANGED <<asset_config, channel_i>>
       ELSE /\ asset_config' = disk[cli_args.assets[asset_i]]
            /\ channel_i' = 1
            /\ cpc' = "channel"
    /\ UNCHANGED <<cli_args, disk, asset_i, cmd_stdout, cmd_raised>>
    /\ UNCHANGED not_command_vars

\* one turn of "for channel in channels": the transform, the schema check, the
\* confirmation and the assignment into asset_config, or the exception
UpdateChannel ==
    /\ cpc = "channel"
    /\ channel_i <= Len(cli_args.channels)
    /\ \E answer \in BOOLEAN :
       \E r \in {apply_update_channel(asset_config, cli_args.assets[asset_i],
                                     cli_args.channels[channel_i], cli_args, answer)} :
           /\ asset_config' = r.config
           /\ cmd_stdout' = cmd_stdout \o r.lines
           /\ cmd_raised' = r.raised
           /\ IF r.raised = None
              THEN channel_i' = channel_i + 1 /\ cpc' = "channel"
              ELSE channel_i' = channel_i /\ cpc' = "raised"
    /\ UNCHANGED <<cli_args, disk, asset_i>>
    /\ UNCHANGED not_command_vars

\* write_asset_config(env, asset, asset_config), after the asset's last channel
WriteAssetConfig ==
    /\ cpc = "channel"
    /\ channel_i > Len(cli_args.channels)
    /\ disk' = [disk EXCEPT ![cli_args.assets[asset_i]] = asset_config]
    /\ asset_i' = asset_i + 1
    /\ cpc' = "asset"
    /\ UNCHANGED <<cli_args, asset_config, channel_i, cmd_stdout, cmd_raised>>
    /\ UNCHANGED not_command_vars

NextCommand == LoadAssetConfig \/ UpdateChannel \/ WriteAssetConfig

SpecCommand == InitCommand /\ [][NextCommand]_vars

---------------------------------------------------------------------------
(* duplicate_config: for each asset of args.assets, the first requested       *)
(* channel the asset has is duplicated through apply_update.  It runs on the  *)
(* state of the command layer.  Of a channel definition only the              *)
(* classification annotations matter here; the new channel is named after    *)
(* the channel it copies (gen_channel_id names it after its annotations).     *)

\* check_duplicate_supported(classification_annotations)
check_duplicate_supported(classification_annotations) ==
    IF "ground_space_sband" \in DOMAIN classification_annotations.v
       /\ truthy(classification_annotations.v["ground_space_sband"])
    THEN Raise("DuplicateError")
    ELSE IF ~("space_ground_xband_dvbs2x_pls" \in DOMAIN classification_annotations.v
              /\ truthy(classification_annotations.v["space_ground_xband_dvbs2x_pls"]))
    THEN Raise("DuplicateError")
    ELSE None

\* duplicate(args, existing, template_class_annos): the definition with the
\* pls of the command line, or the DuplicateError
duplicate(vargs, existing, template_class_annos) ==
    IF IsError(check_duplicate_supported(template_class_annos))
    THEN check_duplicate_supported(template_class_annos)
    ELSE Dict(setitem(setitem(existing.v, "contact_overhead_time", Str(<<49, 48, 115>>)),
                      "classification_annotations",
                      Dict(setitem(existing.v["classification_annotations"].v,
                                   "space_ground_xband_dvbs2x_pls", Num(vargs.pls)))))

\* gen_channel_id(args, class_annos)
gen_channel_id(channel) == IF channel = "CH_A" THEN "CH_A_DUP" ELSE "CH_B_DUP"

\* the first channel of args.channels the asset's config has, None if none
RECURSIVE first_existing_channel(_, _, _)
first_existing_channel(channels, config, i) ==
    IF i > Len(channels) THEN None
    ELSE IF channels[i] \in DOMAIN config THEN Str(channels[i])
    ELSE first_existing_channel(channels, config, i + 1)

\* apply_update(env, [asset], [existing_channel], do_duplicate, new_channel=True),
\* updated_chan being what do_duplicate returned or raised: the config written
\* for the asset and the lines printed
apply_update_duplicate(config, asset, channel, vargs, answer, updated_chan) ==
    IF IsError(updated_chan)
    THEN [config |-> config, lines |-> <<Line("err: Error", asset, channel)>>]
    ELSE IF ~vargs.yes /\ ~answer
    THEN [config |-> config,
          lines |-> <<Line("Changing", asset, gen_channel_id(channel)),
                      Line("warn: Canceled.", asset, gen_channel_id(channel))>>]
    ELSE [config |-> setitem(config, gen_channel_id(channel), updated_chan),
          lines |-> (IF vargs.yes THEN <<>>
                     ELSE <<Line("Changing", asset, gen_channel_id(channel))>>)
                    \o <<Line("Updated", asset, gen_channel_id(channel))>>]

\* what an asset's file may hold: a DVB channel, and an S/X bidir one, which
\* duplicate does not support
DvbChannel ==
    Dict("classification_annotations" :> Dict("space_ground_xband_dvbs2x_pls" :> Num(1)))
BidirChannel ==
    Dict("classification_annotations" :> Dict("ground_space_sband" :> Bool(TRUE)))
DuplicateFiles ==
    {<<>>, "CH_A" :> DvbChannel, "CH_B" :> DvbChannel, "CH_B" :> BidirChannel,
     "CH_A" :> BidirChannel @@ "CH_B" :> DvbChannel}

\* args.assets: the names a, b, ... of n assets, separated by commas
AssetsText(n) == [i \in 1..(2 * n - 1) |-> IF i % 2 = 1 THEN 96 + (i + 1) \div 2 ELSE 44]

InitDuplicate ==
    /\ \E n \in 1..MaxAssets, yes \in BOOLEAN,
          channels \in {<<"CH_A">>, <<"CH_A", "CH_B">>, <<"CH_B", "CH_A">>} :
           cli_args = [command |-> "duplicate", assets |-> AssetsText(n),
                       channels |-> channels, yes |-> yes, pls |-> 2]
    /\ disk \in [{<<96 + g>> : g \in 1..MaxAssets} -> DuplicateFiles]
    /\ asset_config = <<>>
    /\ asset_i = 1
    /\ channel_i = 0
    /\ cmd_stdout = <<>>
    /\ cmd_raised = None
    /\ cpc = "asset"
    /\ OffExcept("command")

\* one turn of "for asset in args.assets.split(",")"
DuplicateAsset ==
    /\ cpc = "asset"
    /\ asset_i <= Len(split(cli_args.assets, 44))
    /\ \E asset \in {split(cli_args.assets, 44)[asset_i]} :
       \E existing_channel \in {first_existing_channel(cli_args.channels, disk[asset], 1)} :
           /\ asset_config' = disk[asset]
           /\ IF existing_channel = None
              THEN \* warn, and return None
                   /\ cmd_stdout' = Append(cmd_stdout, Line("warn: none of the channels", asset, ""))
                   /\ cpc' = "done"
                   /\ UNCHANGED <<disk, asset_i>>
              ELSE \E answer \in BOOLEAN :
                   \E r \in {apply_update_duplicate(
                                 disk[asset], asset, existing_channel.v, cli_args, answer,
                                 duplicate(cli_args, disk[asset][existing_channel.v],
                                           disk[asset][existing_channel.v]
                                               .v["classification_annotations"]))} :
                       /\ cmd_stdout' = cmd_stdout
                              \o <<Line("Duplicating", asset, existing_channel.v)>> \o r.lines
                       /\ disk' = [disk EXCEPT ![asset] = r.config]
                       /\ asset_i' = asset_i + 1
                       /\ cpc' = IF asset_i < Len(split(cli_args.assets, 44))
                                 THEN "asset" ELSE "done"
    /\ UNCHANGED <<cli_args, channel_i, cmd_raised>>
    /\ UNCHANGED not_command_vars

NextDuplicate == DuplicateAsset

SpecDuplicate == InitDuplicate /\ [][NextDuplicate]_vars

---------------------------------------------------------------------------
(* legacy/sync_to_tk.py: solve *)

\* bounds of the formulas solve is called on
MaxClauses == 3
MaxClauseLen == 2

\* the literals of the formulas of test_solve
LiteralNames == {"a", "b", "c"}

\* the members of a clause: (name, inverted)
Bindings == LiteralNames \X BOOLEAN

\* CnfFormula: a set of clauses, each the defn of a CnfClause (the comment is only displayed)
CnfFormulas ==
    {f \in SUBSET {c \in SUBSET Bindings : Cardinality(c) <= MaxClauseLen} :
        Cardinality(f) <= MaxClauses}

\* the names bound by the clauses
literals(formula) == {binding[1] : binding \in UNION formula}

\* more_itertools.powerset: every subset of the literals, the ones bound to true
powerset(s) == SUBSET s

\* _reduce with the binding not XOR-ed with inverted
reduce_without_inversion(clause, assignment) == \E binding \in clause : binding[2] = (binding[1] \in assignment)

\* _reduce: inverted XOR bound, for one member at least
reduce(clause, assignment) == \E binding \in clause : binding[2] # (binding[1] \in assignment)

\* _is_sat: every clause reduces to True
is_sat(formula, assignment) == \A clause \in formula : reduce(clause, assignment)

\* _expand: the value of every literal
expand(formula, assignment) == {<<literal, literal \in assignment>> : literal \in literals(formula)}

satisfying(formula) == {expand(formula, a) : a \in {x \in powerset(literals(formula)) : is_sat(formula, x)}}

solve(formula) ==
    IF satisfying(formula) = {}
    THEN [raised |-> "SettingsConflictError", value |-> {}]
    ELSE [raised |-> "", value |-> satisfying(formula)]

InitSolve ==
    /\ clauses \in CnfFormulas
    /\ solved = [raised |-> "", value |-> {}]
    /\ spc = "ready"
    /\ OffExcept("solve")

Solve ==
    /\ spc = "ready"
    /\ solved' = solve(clauses)
    /\ spc' = "done"
    /\ UNCHANGED clauses
    /\ UNCHANGED not_solve_vars

NextSolve == Solve

SpecSolve == InitSolve /\ [][NextSolve]_vars

---------------------------------------------------------------------------
(* channel_tool/naming.py *)

\* Prefixes, one per "major class" of contact
U_U_BIDIR == <<85, 95, 85, 95, 66, 73, 68, 73, 82>>
S_U_BIDIR == <<83, 95, 85, 95, 66, 73, 68, 73, 82>>
S_TXO == <<83, 95, 84, 88, 79>>
X_TXO == <<88, 95, 84, 88, 79>>
X_S_BIDIR == <<88, 95, 83, 95, 66, 73, 68, 73, 82>>

\* the keys band_booleans_tuple is read from, in its order
BandKeys ==
    <<"space_ground_uhf", "ground_space_uhf", "space_ground_sband", "ground_space_sband",
      "space_ground_xband">>

\* KNOWN_PREFIX_MAP.items(), in the order of the dict
KNOWN_PREFIX_MAP ==
    <<<<U_U_BIDIR, <<TRUE, TRUE, FALSE, FALSE, FALSE>>>>,
      <<S_U_BIDIR, <<TRUE, TRUE, TRUE, FALSE, FALSE>>>>,
      <<S_TXO, <<FALSE, FALSE, TRUE, FALSE, FALSE>>>>,
      <<X_TXO, <<FALSE, FALSE, FALSE, FALSE, TRUE>>>>,
      <<X_S_BIDIR, <<FALSE, FALSE, FALSE, TRUE, TRUE>>>>>>

\* class_annos[key]
getitem(annos, key) ==
    IF key \in DOMAIN annos.v THEN annos.v[key] ELSE Raise("KeyError")

\* str(n) of a natural number: its decimal digits
RECURSIVE digits(_)
digits(n) == IF n < 10 THEN <<48 + n>> ELSE digits(n \div 10) \o <<48 + (n % 10)>>

\* str(x), which is also how an f-string formats x
str(x) ==
    CASE x.k = "str" -> x.v
      [] x.k = "num" -> digits(x.v)
      [] x.k = "bool" -> IF x.v THEN <<84, 114, 117, 101>> ELSE <<70, 97, 108, 115, 101>>
      [] OTHER -> <<78, 111, 110, 101>>

\* s.replace(old, new), old and new being one character each
replace(s, old, new) == [i \in 1..Len(s) |-> IF s[i] = old THEN new ELSE s[i]]

\* a section made of text and of the str() of an annotation, or the error reading it raised
section(text, value) == IF IsError(value) THEN value ELSE Str(text \o str(value))

generate_prov_section(annos) == section(<<95>>, getitem(annos, "provider"))

generate_bw_section(annos) ==
    LET sband == getitem(annos, "space_ground_sband")
        xband == getitem(annos, "space_ground_xband")
    IN IF IsError(sband) THEN sband
       ELSE IF truthy(sband)
       THEN section(<<95, 66, 87>>, getitem(annos, "space_ground_sband_bandwidth_mhz"))
       ELSE IF IsError(xband) THEN xband
       ELSE IF truthy(xband)
       THEN section(<<95, 66, 87>>, getitem(annos, "space_ground_xband_bandwidth_mhz"))
       ELSE Str(<<>>)

generate_enc_section(annos) ==
    LET sband == getitem(annos, "space_ground_sband")
        xband == getitem(annos, "space_ground_xband")
        encoding == getitem(annos, "space_ground_sband_encoding")
    IN IF IsError(sband) THEN sband
       ELSE IF truthy(sband)
       THEN IF IsError(encoding) THEN encoding
            ELSE IF ~py_eq(encoding, Str(<<68, 86, 66, 83, 50, 88>>)) THEN Str(<<95, 76, 69, 71>>)
            ELSE section(<<95, 80>>, getitem(annos, "space_ground_sband_dvbs2x_pls"))
       ELSE IF IsError(xband) THEN xband
       ELSE IF truthy(xband)
       THEN section(<<95, 80>>, getitem(annos, "space_ground_xband_dvbs2x_pls"))
       ELSE Str(<<>>)

generate_adcs_section(annos) ==
    LET adcs_pointing == getitem(annos, "adcs_pointing")
    IN IF IsError(adcs_pointing) THEN adcs_pointing
       ELSE IF py_eq(adcs_pointing, Str(<<78, 65, 68, 73, 82>>)) THEN Str(<<>>)
       ELSE section(<<95>>, adcs_pointing)

generate_freq_section(annos) ==
    LET sband == getitem(annos, "space_ground_sband")
        freq == getitem(annos, "space_ground_sband_mid_freq_mhz")
    IN IF IsError(sband) THEN sband
       ELSE IF truthy(sband)
       THEN IF IsError(freq) THEN freq ELSE Str(<<95, 70>> \o replace(str(freq), 46, 95))
       ELSE Str(<<>>)

generate_jira_section(annos) ==
    LET jira_ticket == IF "jira_ticket" \in DOMAIN annos.v
                       THEN annos.v["jira_ticket"] ELSE None
    IN IF ~truthy(jira_ticket) THEN Str(<<>>)
       ELSE IF ~IsStr(jira_ticket) THEN Raise("AttributeError")
       ELSE Str(<<95, 74, 73, 82, 65, 95>> \o replace(jira_ticket.v, 45, 95))

\* for known_prefix, prefix_booleans_tuple in KNOWN_PREFIX_MAP.items(), from the i-th on
RECURSIVE known_prefix(_, _)
known_prefix(band_booleans_tuple, i) ==
    IF i > Len(KNOWN_PREFIX_MAP) THEN None
    ELSE IF py_eq(List(band_booleans_tuple),
                  List([j \in 1..Len(KNOWN_PREFIX_MAP[i][2]) |-> Bool(KNOWN_PREFIX_MAP[i][2][j])]))
    THEN Str(KNOWN_PREFIX_MAP[i][1])
    ELSE known_prefix(band_booleans_tuple, i + 1)

\* the first error of the parts, else their concatenation
RECURSIVE format_parts(_, _)
format_parts(parts, text) ==
    IF Len(parts) = 0 THEN Str(text)
    ELSE IF IsError(Head(parts)) THEN Head(parts)
    ELSE format_parts(Tail(parts), text \o Head(parts).v)

\* class_annos_to_name with the ADCS section put before the frequency section
class_annos_to_name_adcs_before_freq(annos) ==
    LET band_booleans_tuple == [j \in 1..Len(BandKeys) |-> getitem(annos, BandKeys[j])]
        prefix == known_prefix(band_booleans_tuple, 1)
    IN IF \E j \in 1..Len(BandKeys) : IsError(band_booleans_tuple[j]) THEN Raise("KeyError")
       ELSE IF ~truthy(prefix) THEN Raise("ChannelNamingError")
       ELSE format_parts(<<prefix,
                           generate_prov_section(annos),
                           generate_bw_section(annos),
                           generate_enc_section(annos),
                           generate_adcs_section(annos),
                           generate_freq_section(annos),
                           generate_jira_section(annos)>>, <<>>)

class_annos_to_name(annos) ==
    LET band_booleans_tuple == [j \in 1..Len(BandKeys) |-> getitem(annos, BandKeys[j])]
        prefix == known_prefix(band_booleans_tuple, 1)
    IN IF \E j \in 1..Len(BandKeys) : IsError(band_booleans_tuple[j]) THEN Raise("KeyError")
       ELSE IF ~truthy(prefix) THEN Raise("ChannelNamingError")
       ELSE format_parts(<<prefix,
                           generate_prov_section(annos),
                           generate_bw_section(annos),
                           generate_enc_section(annos),
                           generate_freq_section(annos),
                           generate_adcs_section(annos),
                           generate_jira_section(annos)>>, <<>>)

\* the annotations a template may carry besides the five band flags, and their values
SectionAnnos ==
    [provider : {Str(<<75, 83, 65, 84>>)},
     space_ground_sband_bandwidth_mhz : {Num(5)},
     space_ground_xband_bandwidth_mhz : {Num(76)},
     space_ground_sband_encoding : {Str(<<68, 86, 66, 83, 50, 88>>), Str(<<66, 80, 83, 75>>)},
     space_ground_sband_dvbs2x_pls : {Num(39)},
     space_ground_xband_dvbs2x_pls : {Num(7)},
     space_ground_sband_mid_freq_mhz : {Num(2022), Str(<<50, 48, 50, 50, 46, 53>>)},
     adcs_pointing : {Str(<<78, 65, 68, 73, 82>>), Str(<<84, 82, 65, 67, 75>>)},
     jira_ticket : {Str(<<>>), Str(<<67, 72, 45, 49>>)}]

\* classification annotations: the band flags (a flag may be 1 for true, or
\* null), and the other annotations, the ticket being optional
ClassAnnos ==
    {Dict([j \in {BandKeys[i] : i \in 1..Len(BandKeys)} |-> band[j]] @@ rest @@ ticket) :
        band \in [{BandKeys[i] : i \in 1..Len(BandKeys)} -> {Bool(TRUE), Bool(FALSE)}]
                 \cup {[j \in {BandKeys[i] : i \in 1..Len(BandKeys)} |->
                           IF j \in {"space_ground_uhf", "ground_space_uhf"} THEN Num(1)
                           ELSE IF j = "space_ground_sband" THEN x ELSE Bool(FALSE)] :
                       x \in {Bool(TRUE), None}},
        rest \in {[key \in DOMAIN a \ {"jira_ticket"} |-> a[key]] : a \in SectionAnnos},
        ticket \in {EmptyDict} \cup {"jira_ticket" :> a.jira_ticket : a \in SectionAnnos}}

InitNaming ==
    /\ name_annos \in ClassAnnos
    /\ name_result = None
    /\ npc = "ready"
    /\ OffExcept("naming")

\* expected_name = class_annos_to_name(annos)
ClassAnnosToName ==
    /\ npc = "ready"
    /\ name_result' = class_annos_to_name(name_annos)
    /\ npc' = "done"
    /\ UNCHANGED name_annos
    /\ UNCHANGED not_naming_vars

NextNaming == ClassAnnosToName

SpecNaming == InitNaming /\ [][NextNaming]_vars

---------------------------------------------------------------------------
(* Vocabulary of the properties *)

\* the elements of s at the indices of I, in order
RECURSIVE at_indices(_, _, _)
at_indices(s, I, i) ==
    IF i > Len(s) THEN <<>>
    ELSE (IF i \in I THEN <<s[i]>> ELSE <<>>) \o at_indices(s, I, i + 1)

\* s with every later duplicate (by value equality) dropped
first_occurrences(s) ==
    at_indices(s, {i \in 1..Len(s) : \A j \in 1..(i - 1) : ~py_eq(s[j], s[i])}, 1)

\* the spec's three shapes: a string is a scalar
Shape(x) == IF IsDict(x) THEN "mapping" ELSE IF IsList(x) THEN "sequence" ELSE "scalar"

\* an empty mapping, an empty sequence, or absent
IsEmptied(x) == x.k = "none" \/ (IsList(x) /\ Len(x.v) = 0) \/ (IsDict(x) /\ DOMAIN x.v = {})

---------------------------------------------------------------------------
(* C1: merge on two mappings gives b priority and never merges scalars: for   *)
(* every key k of b, the result holds merge(a[k], b[k]) when k is in a and    *)
(* a[k] is a mapping or a sequence, and b[k] itself in every other case (k    *)
(* absent from a, or a[k] a scalar: string, number, boolean, null); keys of   *)
(* a that are not in b keep a's value.                                        *)
C1_MergeGivesBPriority ==
    (op = "merge" /\ IsDict(in_a) /\ IsDict(in_b)) =>
        LET a == in_a.v
            b == in_b.v
            recurses(key) == key \in DOMAIN a /\ (IsDict(a[key]) \/ IsList(a[key]))
            expected(key) ==
                IF key \notin DOMAIN b THEN a[key]
                ELSE IF recurses(key) THEN merge(a[key], b[key])
                ELSE b[key]
        IN IF \E key \in DOMAIN b : recurses(key) /\ IsError(merge(a[key], b[key]))
           THEN IsError(out)
           ELSE out = Dict([key \in DOMAIN a \cup DOMAIN b |-> expected(key)])

(* C2: merge on two sequences returns the elements of a followed by those of  *)
(* b with later duplicates dropped; sorted lexicographically when every       *)
(* element of that result is a string, in first-occurrence order otherwise    *)
(* (numbers, mappings, or a mix of strings and other values).                 *)
C2_MergeSequences ==
    (op = "merge" /\ IsList(in_a) /\ IsList(in_b)) =>
        LET ml == first_occurrences(in_a.v \o in_b.v) IN
        IF \A i \in 1..Len(ml) : IsStr(ml[i])
        THEN /\ IsList(out)
             /\ Len(out.v) = Len(ml)
             /\ Range(out.v) = Range(ml)
             /\ \A i \in 1..Len(out.v) : \A j \in (i + 1)..Len(out.v) :
                    ~str_lt(out.v[j].v, out.v[i].v)
        ELSE out = List(ml)

(* C3: for mappings a and b of scalars of any kind (strings, numbers          *)
(* including 0, booleans including false), remove(a, b) maps exactly the keys *)
(* k of a with k not in b or a[k] != b[k], each to a[k]: a key is deleted     *)
(* only when b names it with an equal value.                                  *)
C3_RemoveScalars ==
    (/\ op = "remove" /\ in_a \in FlatDicts /\ in_b \in FlatDicts
     /\ \A key \in DOMAIN in_a.v : in_a.v[key].k \in {"str", "num", "bool"}
     /\ \A key \in DOMAIN in_b.v : in_b.v[key].k \in {"str", "num", "bool"}) =>
        LET a == in_a.v
            b == in_b.v
            kept == {key \in DOMAIN a : key \notin DOMAIN b \/ ~py_eq(a[key], b[key])}
        IN out = Dict([key \in kept |-> a[key]])

(* C4: remove on a sequence a with filter sequence b keeps, in order, exactly *)
(* the elements of a that are deeply equal to no element of b; an element is  *)
(* never recursed into, so a mapping element that only partly matches an      *)
(* element of b is kept whole.                                                *)
C4_RemoveSequenceWholeElements ==
    (op = "remove" /\ IsList(in_a) /\ IsList(in_b)) =>
        LET a == in_a.v
            b == in_b.v
            kept == {i \in 1..Len(a) : \A j \in 1..Len(b) : ~py_eq(a[i], b[j])}
        IN out = List(at_indices(a, kept, 1))

\* a mapping element sharing a field with an element of b, and kept as it was
C4_Witness ==
    /\ op = "remove" /\ IsList(in_a) /\ IsList(in_b) /\ IsList(out)
    /\ \E i \in 1..Len(in_a.v) : \E j \in 1..Len(in_b.v) :
           /\ IsDict(in_a.v[i]) /\ IsDict(in_b.v[j])
           /\ in_a.v[i] # in_b.v[j]
           /\ \E key \in DOMAIN in_a.v[i].v \cap DOMAIN in_b.v[j].v :
                  in_a.v[i].v[key] = in_b.v[j].v[key]
           /\ in_a.v[i] \in Range(out.v)
           /\ Len(out.v) < Len(in_a.v)

\* below the root, no key that b names is left holding an emptied structure
RECURSIVE no_emptied(_, _)
no_emptied(o, b) ==
    \A key \in DOMAIN o \cap DOMAIN b :
        /\ ~IsEmptied(o[key])
        /\ (IsDict(o[key]) /\ IsDict(b[key])) => no_emptied(o[key].v, b[key].v)

C6_UpdateKeepsKeySet ==
    (op = "update" /\ IsDict(in_a) /\ IsDict(in_b) /\ ~IsError(out)) =>
        IsDict(out) /\ DOMAIN out.v = DOMAIN in_a.v

\* updates names a key current lacks (with a value), and another key was updated
C6_Witness ==
    /\ op = "update" /\ IsDict(in_a) /\ IsDict(in_b) /\ IsDict(out)
    /\ \E key \in DOMAIN in_b.v \ DOMAIN in_a.v : truthy(in_b.v[key])
    /\ out # in_a

\* the element satisfies all supplied predicates
qualifies(config, cfs) ==
    \A i \in 1..Len(cfs) :
        LET r == predicate_func(cfs[i], config) IN ~IsError(r) /\ r.v

(* C7: update(current, [template], predicates) on a sequence of mappings      *)
(* returns a sequence of the same length and order; an element is changed     *)
(* only if it satisfies all predicates (none supplied: every element); in a   *)
(* qualifying element exactly the fields that exist in it and are non-null in *)
(* the template hold the recursively updated template value, no absent field  *)
(* is introduced; the other elements are returned unchanged.                  *)
C7_UpdateListOfMappings ==
    (/\ op = "update" /\ IsList(in_a) /\ IsList(in_b) /\ ~IsError(out)
     /\ Len(in_b.v) = 1 /\ \A n \in Range(in_a.v \o in_b.v) : IsDict(n)) =>
        LET template == in_b.v[1].v
            expected(config) ==
                IF qualifies(config, in_preds)
                THEN Dict([f \in DOMAIN config.v |->
                              IF f \in DOMAIN template /\ template[f] # None
                              THEN update(config.v[f], template[f], in_preds).ret
                              ELSE config.v[f]])
                ELSE config
        IN /\ IsList(out)
           /\ Len(out.v) = Len(in_a.v)
           /\ \A i \in 1..Len(in_a.v) : out.v[i] = expected(in_a.v[i])

\* two elements under predicates: one qualifies and is changed, the other is not;
\* the template carries a null field and a field the changed element lacks
C7_Witness ==
    /\ op = "update" /\ IsList(in_a) /\ IsList(out) /\ Len(in_a.v) = 2
    /\ Len(in_preds) > 0 /\ IsList(in_b) /\ Len(in_b.v) = 1 /\ IsDict(in_b.v[1])
    /\ \E i, j \in 1..2 :
           /\ qualifies(in_a.v[i], in_preds) /\ out.v[i] # in_a.v[i]
           /\ ~qualifies(in_a.v[j], in_preds) /\ out.v[j] = in_a.v[j]
           /\ \E f \in DOMAIN in_b.v[1].v : f \notin DOMAIN in_a.v[i].v
           /\ \E f \in DOMAIN in_b.v[1].v : in_b.v[1].v[f] = None

(* C8: merge, remove and update are pure: after the call each argument is     *)
(* structurally equal to its value before the call.                           *)
C8_ArgumentsUnchanged ==
    op # "idle" => (post_a = in_a /\ post_b = in_b)

(* C9: merge, remove and update each fail with an error whenever the shapes   *)
(* of their two arguments differ (mapping vs sequence, sequence vs mapping,   *)
(* container vs scalar or string); none returns a result then.                *)
C9_ShapeMismatchFails ==
    (op # "idle" /\ Shape(in_a) # Shape(in_b)) => IsError(out)

\* the Rule lines printed so far, as (module, name)
reported_rules ==
    LET lines == SelectSeq(stdout, LAMBDA l : l.kind = "Rule")
    IN [i \in 1..Len(lines) |-> <<lines[i].module, lines[i].name>>]

(* C10: run_validation_rules does not short-circuit: every selected rule of   *)
(* every module is executed and its result reported before the run fails; an  *)
(* ENFORCE violation of one rule never keeps a later rule from being executed *)
(* and reported, and the failure is raised only after the last rule.          *)
C10_NoShortCircuit ==
    /\ raised # None =>
           /\ reported_rules = rulestrings
           /\ \A r \in Range(rulestrings) : r \in DOMAIN results
           /\ \A i \in 1..Len(enforce_fail_results) :
                  report_line("ERROR", enforce_fail_results[i]) \in Range(stdout)
    /\ (vpc = "rules" /\ module_i <= Len(validation_rules)) =>
           /\ raised = None
           /\ ENABLED RunValidationRule

\* the run failed on an ENFORCE violation of its first rule, and ran later rules after it
C10_Witness ==
    /\ raised = ValidationError
    /\ Len(rulestrings) >= 2
    /\ results[rulestrings[1]].result # None
    /\ results[rulestrings[1]].result.mode = ENFORCE
    /\ \E i \in 2..Len(stdout) :
           stdout[i].kind = "Rule" /\ <<stdout[i].module, stdout[i].name>> # rulestrings[1]

\* the executed rules that reported a violation, by declared mode
violated_rules(mode) ==
    {r \in DOMAIN results :
        results[r].result # None /\ results[r].rule.mode = mode}

(* C11: the validation run fails if and only if at least one executed rule    *)
(* with mode ENFORCE reported a violation; violations of COMPLAIN rules are   *)
(* printed as warnings and never cause the run to raise, whatever their       *)
(* number.                                                                    *)
C11_FailsIffEnforceViolation ==
    /\ vpc = "rules" => raised = None
    /\ vpc \in {"returned", "raised"} =>
           /\ (vpc = "raised") = (raised # None)
           /\ (raised # None) = (violated_rules(ENFORCE) # {})
           /\ \A r \in violated_rules(COMPLAIN) :
                  \E i \in 1..Len(stdout) :
                      /\ stdout[i].kind = "WARN"
                      /\ <<stdout[i].module, stdout[i].name>> = r
                      /\ stdout[i].violation_cases = results[r].result.violation_cases

\* a run that returned although two of its rules failed in COMPLAIN mode
C11_Witness ==
    /\ vpc = "returned" /\ raised = None
    /\ Cardinality(violated_rules(COMPLAIN)) >= 2
    /\ Len(SelectSeq(stdout, LAMBDA l : l.kind = "WARN")) >= 2

\* the violation cases of the failed rules of a mode, with the rule and its description
violation_labels(mode) ==
    UNION {{<<"Rule", results[r].rule.module, results[r].rule.name>>,
            results[r].result.description}
               \cup Range(results[r].result.violation_cases) : r \in violated_rules(mode)}

(* C12: when ENFORCE rules fail, the error raised by the validation run       *)
(* carries in its message exactly the violation-case labels of the failing    *)
(* ENFORCE rules, with their rule names and descriptions, and none of the     *)
(* COMPLAIN violation cases.                                                  *)
C12_ErrorCarriesEnforceCases ==
    raised # None =>
        /\ violation_labels(ENFORCE) \subseteq Range(raised.message)
        /\ \A c \in violation_labels(COMPLAIN) \ violation_labels(ENFORCE) :
               c \notin Range(raised.message)

(* C13: while validating environment E, a rule that declares a target-        *)
(* environment restriction different from E is never executed (it is skipped  *)
(* and logged as filtered out), and a rule that declares no restriction is    *)
(* executed in every environment.                                             *)
C13_EnvRestrictionRespected ==
    env_i \in 1..Len(ENVS) =>
        /\ \A r \in DOMAIN results :
               results[r].rule.env.k = "none" \/ results[r].rule.env.v = ENVS[env_i]
        /\ vpc = "returned" =>
               \A m \in 1..Len(validation_rules) :
                   \A i \in 1..Len(validation_rules[m].rules) :
                       validation_rules[m].rules[i].env.k = "none" =>
                           <<validation_rules[m].module, validation_rules[m].rules[i].name>>
                               \in DOMAIN results

\* the label prefix of the instance a call was made for, read off its arguments
instance_prefix(scope, args) ==
    CASE scope = "GROUNDSTATION_TEMPLATE_CHANNEL" -> <<args[2], " in ", disp_input.gs_templates_file>>
      [] scope = "SATELLITE_TEMPLATE_CHANNEL" -> <<args[2], " in ", disp_input.sat_templates_file>>
      [] scope \in {"GROUNDSTATION_CHANNEL", "SATELLITE_CHANNEL"} -> <<args[3], " on ", args[2]>>
      [] scope \in {"GROUNDSTATION", "SATELLITE"} -> <<args[2]>>
      [] scope = "GENERAL" -> <<"General rule failure">>

(* C14: a dispatched rule returns no violation if and only if the rule        *)
(* function returned true for every scope instance; otherwise it returns a    *)
(* single violation object carrying the rule's declared description, mode and *)
(* scope and exactly one violation-case label per failing instance, in        *)
(* iteration order, where the label is the instance prefix alone for a false  *)
(* result and prefix + ': ' + reason when the function returned a string.     *)
C14_DispatchResult ==
    dpc = "done" =>
        LET func == disp_rule.func
            failing == {i \in 1..Len(disp_calls) : func[i] # Bool(TRUE)}
            label(i) ==
                IF func[i] = Bool(FALSE) THEN instance_prefix(disp_rule.scope, disp_calls[i])
                ELSE instance_prefix(disp_rule.scope, disp_calls[i]) \o <<": ", func[i]>>
        IN IF failing = {} THEN disp_result = None
           ELSE /\ disp_result # None
                /\ disp_result.description = disp_rule.description
                /\ disp_result.mode = disp_rule.mode
                /\ disp_result.scope = disp_rule.scope
                /\ disp_result.violation_cases =
                       at_indices([i \in 1..Len(disp_calls) |-> label(i)], failing, 1)

\* one instance passed, one failed with false and one with a reason
C14_Witness ==
    /\ dpc = "done" /\ disp_result # None
    /\ Len(disp_calls) >= 3
    /\ Bool(TRUE) \in Range(disp_rule.func)
    /\ Len(disp_result.violation_cases) = 2
    /\ \E i, j \in 1..2 :
           /\ Len(disp_result.violation_cases[i]) = Len(disp_result.violation_cases[j]) + 2
           /\ disp_result.violation_cases[i][Len(disp_result.violation_cases[i])] = Str(<<1>>)

\* the annotations of the ground-station template entry of a channel id
gs_template_annos(channel_id) ==
    (CHOOSE t \in Range(disp_input.gs_templates) : t.id = channel_id)
        .config.classification_annotations

(* C15: the dispatcher invokes a rule function exactly once per instance of   *)
(* its scope and no more: once per channel of the ground-station (resp.       *)
(* satellite) template set for the template-channel scopes, once per (asset,  *)
(* channel) pair over all per-asset configs for the channel scopes, once per  *)
(* asset for GROUNDSTATION / SATELLITE, and exactly once for GENERAL; for     *)
(* every channel-level scope the classification annotations passed are those  *)
(* of the ground-station template entry with the same channel id.             *)
C15_OncePerInstance ==
    dpc = "done" =>
        LET scope == disp_rule.scope
            templates == IF scope = "GROUNDSTATION_TEMPLATE_CHANNEL"
                         THEN disp_input.gs_templates ELSE disp_input.sat_templates
            configs == IF scope \in {"GROUNDSTATION_CHANNEL", "GROUNDSTATION"}
                       THEN disp_input.gs_configs ELSE disp_input.sat_configs
            pairs == UNION {{<<g, c>> : c \in 1..Len(configs[g].config)} :
                               g \in 1..Len(configs)}
        IN CASE scope \in {"GROUNDSTATION_TEMPLATE_CHANNEL", "SATELLITE_TEMPLATE_CHANNEL"} ->
                  /\ Len(disp_calls) = Len(templates)
                  /\ \A i \in 1..Len(templates) :
                         disp_calls[i] = <<"input", templates[i].id,
                                           gs_template_annos(templates[i].id),
                                           templates[i].config>>
             [] scope \in {"GROUNDSTATION_CHANNEL", "SATELLITE_CHANNEL"} ->
                  /\ Len(disp_calls) = Cardinality(pairs)
                  /\ \A gc \in pairs :
                         LET asset == configs[gc[1]]
                             channel == asset.config[gc[2]]
                         IN Cardinality({i \in 1..Len(disp_calls) :
                                disp_calls[i] = <<"input", asset.id, channel.id,
                                                  gs_template_annos(channel.id),
                                                  channel.config>>}) = 1
             [] scope \in {"GROUNDSTATION", "SATELLITE"} ->
                  /\ Len(disp_calls) = Len(configs)
                  /\ \A g \in 1..Len(configs) :
                         /\ disp_calls[g][2] = configs[g].id
                         /\ disp_calls[g][3] = configs[g].config
             [] scope = "GENERAL" -> disp_calls = <<(<<"input">>)>>

\* a satellite-channel rule called on three channels of two satellites, each
\* with the annotations of the ground-station template
C15_Witness ==
    /\ dpc = "done" /\ disp_rule.scope = "SATELLITE_CHANNEL"
    /\ Len(disp_input.sat_configs) = 2
    /\ Len(disp_calls) = 3
    /\ \A i \in 1..3 : disp_calls[i][4] = <<"annotations", "gs", disp_calls[i][3]>>

\* how many space-separated tokens a text has
n_tokens(text) == 1 + Cardinality({i \in 1..Len(text) : text[i] = 32})

(* C16: compile_predicate accepts only a text of exactly three                *)
(* space-separated tokens: a text with fewer than three tokens and a text     *)
(* with more than three tokens (for instance a value containing a space) both *)
(* fail with an error instead of yielding a predicate.                        *)
C16_ExactlyThreeTokens ==
    (ppc # "text" /\ n_tokens(str_predicate) # 3) => (IsError(compiled) /\ ppc = "failed")

\* the value of the digits ds[i..], the last digit being the units
RECURSIVE decimal(_, _)
decimal(ds, i) ==
    IF i > Len(ds) THEN 0
    ELSE (ds[i] - 48) * (10 ^ (Len(ds) - i)) + decimal(ds, i + 1)

\* the operand a value token stands for: the number it denotes, or the token itself
operand(w) ==
    LET ds == IF Len(w) > 0 /\ w[1] \in {43, 45} THEN Tail(w) ELSE w IN
    IF Len(ds) > 0 /\ \A i \in 1..Len(ds) : ds[i] \in 48..57
    THEN Num(IF w[1] = 45 THEN 0 - decimal(ds, 1) ELSE decimal(ds, 1))
    ELSE Str(w)

names_valid_comparators(error) ==
    /\ IsError(error)
    /\ error.v = "ValueError"
    /\ \E i \in 1..Len(error.message) : i = 4 /\ error.message[i] = VALID_COMPARATORS

(* C18 as stated: compile_predicate rejects at compile time, with an error    *)
(* naming the valid comparators, every text whose second token is not one of  *)
(* <=, >=, <, >, ==, !=; no predicate function is returned for an unknown     *)
(* comparator.                                                                *)
C18_UnknownComparatorRejected_AsStated ==
    (ppc # "text" /\ Len(words) >= 2 /\ words[2] \notin Range(VALID_COMPARATORS)) =>
        (ppc = "failed" /\ names_valid_comparators(compiled))

(* C18, amended: compile_predicate rejects at compile time, with an error     *)
(* naming the valid comparators, every text of at least three tokens whose    *)
(* second token is not one of <=, >=, <, >, ==, !=; no predicate function is  *)
(* returned for an unknown comparator.                                        *)
C18_UnknownComparatorRejected ==
    /\ (ppc # "text" /\ Len(words) >= 3 /\ words[2] \notin Range(VALID_COMPARATORS)) =>
           (ppc = "failed" /\ names_valid_comparators(compiled))
    /\ (ppc # "text" /\ Len(words) >= 2 /\ words[2] \notin Range(VALID_COMPARATORS)) =>
           (ppc = "failed" /\ IsError(compiled))

\* "x = 1" was rejected with the error that lists the six comparators
C18_Witness ==
    /\ ppc = "failed"
    /\ str_predicate = <<120, 32, 61, 32, 49>>
    /\ names_valid_comparators(compiled)

---------------------------------------------------------------------------
(* C19: in apply_update, an error raised while transforming one (asset,     *)
(* channel) item (an algebra or predicate error, which modify raises as an    *)
(* Exception) aborts only that item when fail-fast is not set: the loop goes  *)
(* on to the remaining channels and assets and the asset configs are written; *)
(* only with fail-fast set does the error leave apply_update and stop the     *)
(* batch.                                                                     *)

\* the exception modify raises when the operation on a field raised
transform_error == Raise("Exception")

C19_TransformErrorAbortsOnlyItem ==
    (cpc = "raised" /\ cmd_raised = transform_error) => cli_args.fail_fast

---------------------------------------------------------------------------
(* C20: the add/edit guards never change the stored configuration: add on a *)
(* channel already present on the asset leaves that channel as it is, edit on *)
(* an absent channel leaves the asset without it; without fail-fast each only *)
(* warns and the batch continues; with fail-fast add raises                   *)
(* AlreadyExistsError (edit raises NoConfigurationError) and no further edit  *)
(* of the batch is made.                                                      *)

\* the lines a guard leaves: its warning, or the error it raised as printed by
\* apply_update
guard_warnings == {"warn: already exists", "warn: no configuration"}
guard_line(line) ==
    \/ line.kind \in guard_warnings
    \/ line.kind = "err: Error"
    \/ line.kind = "err: Unhandled exception" /\ cmd_raised = Raise("NoConfigurationError")

\* the channel of a guard's line is stored as the asset's file has it
guarded_channels_unchanged ==
    \A i \in 1..Len(cmd_stdout) :
        (/\ guard_line(cmd_stdout[i])
         /\ cpc \in {"channel", "raised"}
         /\ cmd_stdout[i].asset = cli_args.assets[asset_i])
        => get_channel(asset_config, cmd_stdout[i].channel)
               = get_channel(disk[cmd_stdout[i].asset], cmd_stdout[i].channel)

\* a warning is never followed by an exception of the guard
warnings_continue ==
    (\E i \in 1..Len(cmd_stdout) : cmd_stdout[i].kind \in guard_warnings)
        => /\ ~cli_args.fail_fast
           /\ cmd_raised \notin {Raise("AlreadyExistsError"), Raise("NoConfigurationError")}

\* with fail-fast, the guard raises and nothing is edited afterwards
no_edit_after_failed_guard ==
    \A i \in 1..Len(cmd_stdout) :
        (guard_line(cmd_stdout[i]) /\ cli_args.fail_fast)
        => \A j \in (i + 1)..Len(cmd_stdout) : cmd_stdout[j].kind \notin {"Updated", "Deleted"}

C20_GuardsLeaveConfigAndStopBatch ==
    /\ guarded_channels_unchanged
    /\ warnings_continue
    /\ no_edit_after_failed_guard

---------------------------------------------------------------------------
\* a ChannelValue: mappings and sequences with scalar leaves (strings,
\* numbers, booleans), no sequence holding two equal elements
RECURSIVE well_formed(_)
well_formed(x) ==
    CASE IsDict(x) -> \A key \in DOMAIN x.v : well_formed(x.v[key])
      [] IsList(x) -> /\ \A i \in 1..Len(x.v) : well_formed(x.v[i])
                      /\ \A i \in 1..Len(x.v) : \A j \in (i + 1)..Len(x.v) :
                             ~py_eq(x.v[i], x.v[j])
      [] OTHER -> x.k \in {"str", "num", "bool"}

\* x with every all-string sequence in it sorted
RECURSIVE canonical(_)
canonical(x) ==
    CASE IsDict(x) -> Dict([key \in DOMAIN x.v |-> canonical(x.v[key])])
      [] IsList(x) -> IF Len(x.v) > 0 /\ \A i \in 1..Len(x.v) : IsStr(x.v[i])
                      THEN List(sort_strs(x.v))
                      ELSE List([i \in 1..Len(x.v) |-> canonical(x.v[i])])
      [] OTHER -> x

(* C22: merge(a, a) equals a, up to the lexicographic sort of all-string      *)
(* sequences, for every well-formed ChannelValue a (mappings and sequences    *)
(* nested to any depth with scalar leaves of any kind: strings, numbers,      *)
(* booleans) whose sequences contain no duplicate elements.                   *)
C22_MergeIdempotent ==
    (/\ op = "merge" /\ in_a = in_b
     /\ IsDict(in_a) \/ IsList(in_a)
     /\ well_formed(in_a)) =>
        /\ ~IsError(out)
        /\ py_eq(canonical(out), canonical(in_a))

\* the kind of a value: a string is a scalar
RECURSIVE kinds_kept(_, _)
kinds_kept(a, o) ==
    /\ Shape(o) = Shape(a)
    /\ IsDict(a) => \A key \in DOMAIN a.v :
                        key \in DOMAIN o.v /\ kinds_kept(a.v[key], o.v[key])

(* C23: merge preserves the kind of every existing value: for all mappings a  *)
(* and b and every key path present in a, the value of merge(a, b) at that    *)
(* path has the same kind (scalar, sequence or mapping) as the value of a at  *)
(* that path; a change of kind is possible only through overwrite mode.       *)
C23_MergeKeepsKinds ==
    (op = "merge" /\ IsDict(in_a) /\ IsDict(in_b) /\ ~IsError(out)) =>
        kinds_kept(in_a, out)

\* every key path of o is a key path of a, through sequences (element by
\* element) and mappings alike
RECURSIVE paths_within(_, _)
paths_within(o, a) ==
    CASE IsDict(o) -> \/ DOMAIN o.v = {}
                      \/ /\ IsDict(a)
                         /\ \A key \in DOMAIN o.v :
                                key \in DOMAIN a.v /\ paths_within(o.v[key], a.v[key])
      [] IsList(o) -> \/ \A i \in 1..Len(o.v) : paths_within(o.v[i], None)
                      \/ /\ IsList(a)
                         /\ \A i \in 1..Len(o.v) :
                                \E j \in 1..Len(a.v) : paths_within(o.v[i], a.v[j])
      [] OTHER -> TRUE

(* C26: update never introduces a key at any nesting depth: for all current   *)
(* and updates, every key path that exists in update(current, updates) also   *)
(* exists in current, including paths that pass through sequences or through  *)
(* fields whose current value is a scalar.                                    *)
C26_UpdateIntroducesNoKey ==
    (op = "update" /\ IsDict(in_a) /\ ~IsError(out)) => paths_within(out, in_a)

\* wherever a holds a list of mappings, o holds at the same place a list whose
\* elements are those of a, except the ones that satisfy all the predicates
RECURSIVE unselected_kept(_, _, _)
unselected_kept(a, o, cfs) ==
    CASE IsDict(a) -> /\ IsDict(o)
                      /\ \A key \in DOMAIN a.v :
                             key \in DOMAIN o.v /\ unselected_kept(a.v[key], o.v[key], cfs)
      [] IsList(a) /\ (\A i \in 1..Len(a.v) : IsDict(a.v[i])) ->
             /\ IsList(o) /\ Len(o.v) = Len(a.v)
             /\ \A i \in 1..Len(a.v) : qualifies(a.v[i], cfs) \/ o.v[i] = a.v[i]
      [] OTHER -> TRUE

(* C27: when predicates are supplied to update, no list element for which at  *)
(* least one predicate is false is modified, wherever the list sits in        *)
(* current: this holds for a list passed directly and equally for a list of   *)
(* mappings nested under one or more mapping levels of current.               *)
C27_PredicatesGuardNestedLists ==
    (op = "update" /\ Len(in_preds) > 0 /\ ~IsError(out)) =>
        unselected_kept(in_a, out, in_preds)

\* the environments whose rules were run: the "Running validation rules on
\* {env} config ..." lines
environments_run ==
    {stdout[i].env : i \in {j \in 1..Len(stdout) : stdout[j].kind = "Running"}}

(* C28: a single validate run surfaces the ENFORCE violations of every        *)
(* environment: an ENFORCE failure found while validating the first           *)
(* environment (staging) does not prevent the rules from being executed and   *)
(* reported for the next environment (production) before the run exits with   *)
(* failure.                                                                   *)
C28_EveryEnvironmentValidated ==
    vpc \in {"raised", "done"} => environments_run = Range(ENVS)

\* the channel definitions of a file that map a field to None or to an
\* emptied placeholder
emptied_fields(config) ==
    {cf \in (DOMAIN config) \X Range(SchemaFields) :
        /\ cf[2] \in DOMAIN config[cf[1]].v
        /\ IsEmptied(config[cf[1]].v[cf[2]])}

(* C24: in edit with mode remove, when remove yields 'absent' (None) for the  *)
(* value it was applied to, the command layer treats this as a deletion: the  *)
(* channel record it stores and writes back never contains a field mapped to  *)
(* None (or to an emptied placeholder) produced by that remove.               *)
C24_RemoveNeverStoresEmptied ==
    (cli_args.command = "edit" /\ cli_args.mode = "remove") =>
        /\ emptied_fields(asset_config) = {}
        /\ \A asset \in DOMAIN disk : emptied_fields(disk[asset]) = {}

\* the user answered yes to the prompt showing the change of the channel
confirmed(asset, channel) ==
    \E i \in 1..Len(cmd_stdout) :
        /\ cmd_stdout[i].kind \in {"Updated", "Deleted"}
        /\ cmd_stdout[i].asset = asset /\ cmd_stdout[i].channel = channel

(* C29: apply_update persists a change to a channel only after that change    *)
(* was confirmed: for every editing mode (overwrite, merge, remove, update),  *)
(* if --yes is not given and the user did not answer yes to a confirmation    *)
(* prompt showing the change, the asset config written back holds the channel *)
(* exactly as it was loaded.  (Checked where write_asset_config is about to   *)
(* write asset_config over the file it was loaded from.)                      *)
C29_UnconfirmedChangeNotPersisted ==
    (cpc = "channel" /\ channel_i > Len(cli_args.channels) /\ ~cli_args.yes) =>
        \A channel \in Range(cli_args.channels) :
            \/ confirmed(cli_args.assets[asset_i], channel)
            \/ get_channel(asset_config, channel)
                   = get_channel(disk[cli_args.assets[asset_i]], channel)

\* the assets of the list for which duplicate_config printed the given kind of line
assets_with(kinds) ==
    {cmd_stdout[i].asset : i \in {j \in 1..Len(cmd_stdout) : cmd_stdout[j].kind \in kinds}}

(* C30: duplicate_config treats each asset of the asset list independently:   *)
(* for each asset it duplicates the first requested channel that exists on    *)
(* that asset, and an asset on which none of the requested channels exists is *)
(* skipped with a warning while every later asset in the list is still        *)
(* processed.                                                                 *)
C30_EveryAssetProcessed ==
    (cli_args.command = "duplicate" /\ cpc = "done") =>
        \A asset \in Range(split(cli_args.assets, 44)) :
            IF first_existing_channel(cli_args.channels, disk[asset], 1) = None
            THEN asset \in assets_with({"warn: none of the channels"})
            ELSE asset \in assets_with({"Duplicating"})


\* the total truth assignments over the names occurring in the clauses
total_assignments == [{member[1] : member \in UNION clauses} -> BOOLEAN]

\* the ones that satisfy every clause: for one member at least the value differs from inverted
satisfying_assignments ==
    {f \in total_assignments :
        \A clause \in clauses : \E member \in clause : f[member[1]] # member[2]}

\* C25: solve returns exactly the set of the total truth assignments over the
\* literals of the clauses that satisfy every clause, and raises
\* SettingsConflictError exactly when no assignment satisfies the formula.
C25_SolveReturnsTheSatisfyingAssignments ==
    spc = "done" =>
        /\ (solved.raised = "SettingsConflictError") <=> (satisfying_assignments = {})
        /\ solved.raised \in {"", "SettingsConflictError"}
        /\ solved.raised = "" =>
               solved.value = {{<<n, f[n]>> : n \in DOMAIN f} : f \in satisfying_assignments}

\* solve returned several assignments for a formula with a two-member clause
C25_Witness ==
    /\ spc = "done"
    /\ solved.raised = ""
    /\ Cardinality(solved.value) >= 2
    /\ \E clause \in clauses : Cardinality(clause) = 2
    /\ Cardinality(clauses) >= 2

\* solve raised on a formula whose clauses are each satisfiable
C25_WitnessConflict ==
    /\ spc = "done"
    /\ solved.raised = "SettingsConflictError"
    /\ \A clause \in clauses : clause # {}


\* the prefixes of the table whose 5-tuple equals the band flags of the annotations
matching_prefixes ==
    {KNOWN_PREFIX_MAP[i][1] : i \in {e \in 1..Len(KNOWN_PREFIX_MAP) :
        \A j \in 1..Len(BandKeys) :
            py_eq(name_annos.v[BandKeys[j]], Bool(KNOWN_PREFIX_MAP[e][2][j]))}}

\* the sections after the prefix, in the order of the name
sections_in_order ==
    generate_prov_section(name_annos).v \o generate_bw_section(name_annos).v
        \o generate_enc_section(name_annos).v \o generate_freq_section(name_annos).v
        \o generate_adcs_section(name_annos).v \o generate_jira_section(name_annos).v

\* C21: class_annos_to_name returns the prefix, then the provider, bandwidth,
\* encoding/PLS, frequency, ADCS-pointing and ticket sections in that order,
\* the prefix being the one entry of the table whose 5-tuple equals the band
\* flags of the annotations; it raises ChannelNamingError, returning no name,
\* when no entry matches; the five tuples of the table are pairwise distinct,
\* so at most one prefix matches.
C21_NameIsPrefixThenSectionsInOrder ==
    npc = "done" =>
        /\ \A i, j \in 1..Len(KNOWN_PREFIX_MAP) :
               i # j => KNOWN_PREFIX_MAP[i][2] # KNOWN_PREFIX_MAP[j][2]
        /\ Cardinality(matching_prefixes) <= 1
        /\ matching_prefixes = {} <=> name_result = Raise("ChannelNamingError")
        /\ \A prefix \in matching_prefixes : name_result = Str(prefix \o sections_in_order)

\* a name was returned whose six sections are all present, the frequency and
\* the ticket with their separators replaced
C21_Witness ==
    /\ npc = "done"
    /\ name_result.k = "str"
    /\ matching_prefixes = {S_TXO}
    /\ generate_enc_section(name_annos).v # <<95, 76, 69, 71>>
    /\ generate_adcs_section(name_annos).v # <<>>
    /\ generate_jira_section(name_annos).v # <<>>
    /\ 46 \in Range(name_annos.v["space_ground_sband_mid_freq_mhz"].v)

\* no prefix matched and ChannelNamingError was raised
C21_WitnessNoPrefix ==
    /\ npc = "done"
    /\ matching_prefixes = {}
    /\ name_result = Raise("ChannelNamingError")

====
